---- MODULE Spec2Model ----
(***************************************************************************)
(* A model of the pixel-level simplification engine of image-analyzer:     *)
(* src/lib/utils/imageProcessing.ts, src/lib/utils/paintByNumbers.ts and   *)
(* src/lib/utils/palettes.ts, and of the image store of                    *)
(* src/lib/stores/imageStore.ts.                                           *)
(*                                                                         *)
(* A pixel buffer (Uint8ClampedArray) is a sequence of bytes; TLA+         *)
(* sequences are 1-based, so the byte the code calls imageData[i] is       *)
(* imageData[i + 1] here.  A hex colour string is a sequence of one-       *)
(* character strings.  Each engine function is an operator computed the    *)
(* way the code computes it, and an action that applies it to the inputs   *)
(* held in the state and records what it returned.                         *)
(***************************************************************************)
EXTENDS Integers, Sequences, FiniteSets, TLC

VARIABLES
    op,                \* the engine function applied last ("none" before any call)
    passes,            \* how many times it has been applied in a row
    thrown,            \* TRUE when the last call raised an error
    imageData,         \* the input pixel buffer
    width,             \* the declared width of the input
    height,            \* the declared height of the input
    levels,            \* the level count of quantize / posterize
    output,            \* the buffer the last call returned
    numColors,         \* k of extractDominantColors
    sampleRate,        \* the sample stride of extractDominantColors
    colors,            \* the list extractDominantColors returned
    paletteHexColors,  \* the base palette, a list of hex strings
    expandedPalette,   \* the list generateMixedPalette returned
    points,            \* the point sequence given to simplifyContour
    epsilon2,          \* twice the epsilon given to simplifyContour
    simplified,        \* the sequence simplifyContour returned
    threshold,         \* the threshold of detectEdgesSobel
    minRegionSize,     \* the minimum region size given to findRegions
    regions,           \* the regions findRegions returned, by region id
    region,            \* the coordinate set given to traceContour
    startX,            \* the start column given to traceContour
    startY,            \* the start row given to traceContour
    walk,              \* the boundary walk of traceContour when its loop ended
    thickness,         \* the thickness given to thickenLines
    aliased,           \* TRUE when the returned buffer is the input object
    hexString,         \* the string given to hexToRgb
    parsedRgb,         \* the triple hexToRgb returned
    store,             \* the value of the image store
    calls              \* how many methods of the image store have been called

vars == <<op, passes, thrown, imageData, width, height, levels, output,
          numColors, sampleRate, colors, paletteHexColors, expandedPalette,
          points, epsilon2, simplified, threshold, minRegionSize, regions,
          region, startX, startY, walk, thickness, aliased, hexString, parsedRgb,
          store, calls>>

\* The arguments and results of the region tracer, of thickenLines and of
\* hexToRgb, which the other functions neither read nor write.
tracerVars == <<minRegionSize, regions, region, startX, startY, walk>>

\* The image store, which no engine function reads or writes.
storeVars == <<store, calls>>

otherVars == <<tracerVars, thickness, hexString, parsedRgb, storeVars>>

levelVars == <<numColors, sampleRate, colors, paletteHexColors,
               expandedPalette, points, epsilon2, simplified, threshold,
               otherVars>>

\* The boundary walk before any step: nothing pushed, nothing found.
NoWalk == [x |-> 0, y |-> 0, direction |-> 0, iterations |-> 0,
           contour |-> <<>>, found |-> FALSE]

\* defaultAdjustments(): numbers are in hundredths, a crop box is a tuple
\* <<x, y, width, height>> and <<>> is null.
defaultAdjustments ==
    [brightness |-> 0, exposure |-> 0, contrast |-> 0, saturation |-> 0,
     warmth |-> 0, highlights |-> 0, shadows |-> 0, rotation |-> 0,
     crop |-> <<>>, cropMode |-> FALSE]

\* null, for an image and for an analysis result.
Null == "null"

\* initialState: what the store holds when it is created and after reset().
initialState ==
    [current |-> Null,
     history |-> <<>>,
     historyIndex |-> -1,
     isProcessing |-> FALSE,
     analysis |-> Null,
     brightness |-> 100,
     contrast |-> 100,
     saturations |-> 100,
     activeTool |-> "adjustments",
     adjustments |-> defaultAdjustments,
     valueSimplification |->
        [enabled |-> FALSE, levels |-> 5, opacity |-> 100,
         extractedColors |-> <<>>, paintByNumbersEnabled |-> FALSE,
         paintByNumbersMode |-> "blocks", paletteEnabled |-> FALSE,
         selectedPalette |-> "zorn"]]

\* The store as created, with no method called.
StoreIdle == store = initialState /\ calls = 0

\* The state of a specification that calls neither the region tracer nor
\* thickenLines nor hexToRgb on its own.
OthersIdle ==
    /\ minRegionSize = 0
    /\ regions = <<>>
    /\ region = {}
    /\ startX = 0
    /\ startY = 0
    /\ walk = NoWalk
    /\ thickness = 0
    /\ aliased = FALSE
    /\ hexString = <<>>
    /\ parsedRgb = <<>>
    /\ StoreIdle

----------------------------------------------------------------------------
(* Bytes and buffers *)

\* The largest value of a Uint8ClampedArray element.
ByteMax == 255

\* The number of values of a colour channel, the dividend of the step.
ChannelRange == 256

\* Bytes per pixel (R, G, B, A).
Channels == 4

Byte == 0..ByteMax

\* Storing a number into a Uint8ClampedArray clamps it to 0..255.
ToUint8Clamp(x) == IF x < 0 THEN 0 ELSE IF x > ByteMax THEN ByteMax ELSE x

\* The geometry the data model requires of a pixel buffer.
WellFormed(data, w, h) ==
    /\ Len(data) % Channels = 0
    /\ Len(data) = w * h * Channels

\* Reading index i (0-based) of a Uint8ClampedArray: the byte, or undefined
\* past the end.  -1 stands for undefined: it equals itself and no byte,
\* which is how === and !== treat undefined.
ByteAt(data, i) == IF i < Len(data) THEN data[i + 1] ELSE -1

\* TRUE for the positions (1-based) that hold an alpha byte: i + 3 in the code.
IsAlphaIndex(j) == j % Channels = 0

----------------------------------------------------------------------------
(* LevelReducer: quantizeImage and posterizeImage *)

\* A plausible slip: the step taken from 255 instead of 256.
StepFrom255(lv) == ByteMax \div lv

\* Math.floor(256 / levels)
Step(lv) == ChannelRange \div lv

\* Math.round(Math.floor(value / step) * step), stored into the clamped array.
\* With step = 0 (levels > 256) the quotient is Infinity or NaN, the product
\* is NaN, and a clamped array stores NaN as 0.  Math.round of an integer is
\* that integer.
QuantizeChannelDivLevels(value, lv) ==
    IF Step(lv) = 0 THEN 0 ELSE ToUint8Clamp((value \div lv) * Step(lv))

QuantizeChannel(value, lv) ==
    IF Step(lv) = 0 THEN 0 ELSE ToUint8Clamp((value \div Step(lv)) * Step(lv))

\* Math.floor(value / factor) * factor, stored into the clamped array.
PosterizeChannel(value, lv) ==
    IF Step(lv) = 0 THEN 0 ELSE ToUint8Clamp((value \div Step(lv)) * Step(lv))

\* quantizeImage: a new buffer of the input's length; the loop visits i = 0,
\* 4, 8, ... < length and writes i..i+3.  A write past the end of a typed
\* array is dropped, so every in-range position j gets the value computed
\* from the input byte at j, whatever the length; width and height are not
\* read.
quantizeImage(data, w, h, lv) ==
    [j \in 1..Len(data) |->
        IF IsAlphaIndex(j) THEN data[j] ELSE QuantizeChannel(data[j], lv)]

\* posterizeImage: the same loop with the posterize arithmetic.
posterizeImage(data, lv) ==
    [j \in 1..Len(data) |->
        IF IsAlphaIndex(j) THEN data[j] ELSE PosterizeChannel(data[j], lv)]

----------------------------------------------------------------------------
(* Buffer objects: which buffer the stores of a function go to *)

\* A function that takes a pixel buffer has two buffer objects at hand: the
\* one passed to it, which its caller still holds, and one it allocates.
Argument == "argument"

\* new Uint8ClampedArray(n): an object of its own, not the argument.
NewBuffer == "allocated"

\* The bytes of the caller's buffer after a call whose stores left the bytes
\* `stored` in the buffer `object`: they are the caller's only when the
\* function stored into its argument.
ArgumentAfter(object, argument, stored) ==
    IF object = Argument THEN stored ELSE argument

\* A plausible slip: the channels are reduced in place.
QuantizedInPlace == Argument

\* const quantized = new Uint8ClampedArray(imageData.length): the buffer the
\* loop of quantizeImage stores into and the function returns.
Quantized == NewBuffer

\* const posterized = new Uint8ClampedArray(imageData.length).
Posterized == NewBuffer

----------------------------------------------------------------------------
(* Bounds and inputs of the level-reduction specification *)

\* Level counts 1..MaxLevels: every count up to 256 and one beyond it.
MaxLevels == 257

\* How often the caller feeds a result back into the same function.
MaxPasses == 2

LevelCounts == 1..MaxLevels

\* One-pixel buffers sweeping every byte value through the red channel.
SweepInputs ==
    {[imageData |-> <<v, 200, 255 - v, a>>, width |-> 1, height |-> 1] :
        v \in Byte, a \in {0, 255}}

\* Two-pixel buffers.
TwoPixelInputs ==
    {[imageData |-> <<v, 0, 255, 128, 64, v, 200, 255>>, width |-> 2, height |-> 1] :
        v \in {0, 127, 200}}

\* Buffers whose geometry is invalid: a length that is no multiple of 4, and
\* a length that differs from width * height * 4.
MalformedInputs ==
    { [imageData |-> <<200, 100, 50>>, width |-> 1, height |-> 1],
      [imageData |-> <<200, 100, 50, 255, 7>>, width |-> 1, height |-> 1],
      [imageData |-> <<200, 100, 50, 255>>, width |-> 2, height |-> 1] }

LevelInputs == SweepInputs \cup TwoPixelInputs \cup MalformedInputs

InitLevels ==
    /\ \E in \in LevelInputs :
          /\ imageData = in.imageData
          /\ width = in.width
          /\ height = in.height
    /\ levels \in LevelCounts
    /\ op = "none"
    /\ passes = 0
    /\ thrown = FALSE
    /\ output = <<>>
    /\ numColors = 0
    /\ sampleRate = 0
    /\ colors = <<>>
    /\ paletteHexColors = <<>>
    /\ expandedPalette = <<>>
    /\ points = <<>>
    /\ epsilon2 = 0
    /\ simplified = <<>>
    /\ threshold = 0
    /\ OthersIdle

\* A call of quantizeImage(imageData, width, height, levels).  The function
\* has no check of the buffer's geometry and no throw statement.
QuantizeImage ==
    /\ op = "none"
    /\ op' = "quantize"
    /\ passes' = 1
    /\ thrown' = FALSE
    /\ output' = quantizeImage(imageData, width, height, levels)
    /\ imageData' = ArgumentAfter(Quantized, imageData, output')
    /\ UNCHANGED <<width, height, levels>>
    /\ aliased' = FALSE
    /\ UNCHANGED levelVars

\* The caller quantizes the buffer it got back, with the same level count.
QuantizeAgain ==
    /\ op = "quantize"
    /\ passes < MaxPasses
    /\ ~thrown
    /\ imageData' = output
    /\ output' = quantizeImage(output, width, height, levels)
    /\ passes' = passes + 1
    /\ UNCHANGED <<op, thrown, width, height, levels>>
    /\ aliased' = FALSE
    /\ UNCHANGED levelVars

\* A call of posterizeImage(imageData, levels).
PosterizeImage ==
    /\ op = "none"
    /\ op' = "posterize"
    /\ passes' = 1
    /\ thrown' = FALSE
    /\ output' = posterizeImage(imageData, levels)
    /\ imageData' = ArgumentAfter(Posterized, imageData, output')
    /\ UNCHANGED <<width, height, levels>>
    /\ aliased' = FALSE
    /\ UNCHANGED levelVars

\* The caller posterizes the buffer it got back, with the same level count.
PosterizeAgain ==
    /\ op = "posterize"
    /\ passes < MaxPasses
    /\ ~thrown
    /\ imageData' = output
    /\ output' = posterizeImage(output, levels)
    /\ passes' = passes + 1
    /\ UNCHANGED <<op, thrown, width, height, levels>>
    /\ aliased' = FALSE
    /\ UNCHANGED levelVars

NextLevels == QuantizeImage \/ QuantizeAgain \/ PosterizeImage \/ PosterizeAgain

SpecLevels == InitLevels /\ [][NextLevels]_vars

----------------------------------------------------------------------------
(* Properties of the level-reduction specification *)

\* C1: every engine operation that takes a pixel buffer rejects, with an
\* error raised before any pixel is processed and without producing an output
\* buffer, every buffer whose length is not a multiple of 4 or differs from
\* width * height * 4.  (Violated: the functions never check the geometry.)
C1_GeometryRejected ==
    (op # "none" /\ ~WellFormed(imageData, width, height))
        => (thrown /\ output = <<>>)

\* C3: quantize and posterize are idempotent: applying the operation to its
\* own result with the same level count returns that result unchanged.
C3_Idempotent ==
    (op \in {"quantize", "posterize"} /\ passes >= 2) => output = imageData

\* A second quantize pass over a first pass that reduced the red channel to 128.
C3_Witness ==
    /\ op = "quantize"
    /\ passes = 2
    /\ levels = 2
    /\ WellFormed(imageData, width, height)
    /\ output[1] = 128
    /\ output[3] = 0

\* C4: for level counts 1..256 quantize and posterize both output
\* floor(v / s) * s with s = floor(256 / levels) on R, G and B and copy alpha,
\* so both policies produce the same buffer.
C4_FloorToStep ==
    (op \in {"quantize", "posterize"} /\ passes = 1 /\ levels <= ChannelRange
       /\ WellFormed(imageData, width, height))
        => /\ Len(output) = Len(imageData)
           /\ \A j \in 1..Len(imageData) :
                 output[j] =
                    IF j % 4 = 0
                    THEN imageData[j]
                    ELSE (imageData[j] \div (256 \div levels)) * (256 \div levels)

\* The scenario of the specification: levels = 2 on channel value 200 gives 128.
C4_Witness ==
    /\ op = "quantize"
    /\ passes = 1
    /\ levels = 2
    /\ WellFormed(imageData, width, height)
    /\ imageData[1] = 200
    /\ output[1] = 128
    /\ output[4] = imageData[4]

\* C5: posterize with level count N leaves at most N distinct values of a
\* colour channel.  (Violated: N = 3 gives the four values 0, 85, 170, 255.)
C5_AtMostNValues ==
    (op = "posterize" /\ passes = 1 /\ levels <= ChannelRange)
        => Cardinality({posterizeImage(<<v, v, v, ByteMax>>, levels)[1] : v \in Byte})
              <= levels

----------------------------------------------------------------------------
(* Hex colour strings: rgbToHex (imageProcessing.ts) *)

\* The digits Number.prototype.toString(16) produces.
HexDigitsLower ==
    <<"0", "1", "2", "3", "4", "5", "6", "7", "8", "9", "a", "b", "c", "d", "e", "f">>

\* String.prototype.toUpperCase on one character of a hex string.
ToUpperCase(c) ==
    CASE c = "a" -> "A" [] c = "b" -> "B" [] c = "c" -> "C"
      [] c = "d" -> "D" [] c = "e" -> "E" [] c = "f" -> "F"
      [] OTHER -> c

\* x.toString(16) for an integer x >= 0: as many digits as x needs.
RECURSIVE ToString16(_)
ToString16(x) ==
    IF x < 16 THEN <<HexDigitsLower[x + 1]>>
    ELSE ToString16(x \div 16) \o <<HexDigitsLower[(x % 16) + 1]>>

\* A plausible slip: the padding is left out.
PadHexNoPad(x) == ToString16(x)

\* hex.length === 1 ? '0' + hex : hex
PadHex(x) == IF Len(ToString16(x)) = 1 THEN <<"0">> \o ToString16(x) ELSE ToString16(x)

\* [r, g, b].map(...).join(''): the three padded channels in a row.
JoinChannels(r, g, b) == PadHex(r) \o PadHex(g) \o PadHex(b)

\* rgbToHex: '#' followed by the joined channels, upper-cased.
rgbToHex(r, g, b) ==
    <<"#">> \o [i \in 1..Len(JoinChannels(r, g, b)) |->
                  ToUpperCase(JoinChannels(r, g, b)[i])]

----------------------------------------------------------------------------
(* ColorExtractor: extractDominantColors, initCentroids, colorDistance *)

\* The pixel pushed for byte offset o (0-based) of the buffer.
PixelAt(data, o) ==
    [r |-> data[o + 1], g |-> data[o + 2], b |-> data[o + 3], a |-> data[o + 4]]

\* The sample list: for (i = 0; i < length; i += sampleRate * 4).
NumSamples(data, rate) == (Len(data) + rate * Channels - 1) \div (rate * Channels)

SamplePixels(data, rate) ==
    [i \in 1..NumSamples(data, rate) |-> PixelAt(data, (i - 1) * rate * Channels)]

\* What reading past the end of a JavaScript array yields.
Undefined == [undefined |-> TRUE]

IsDefined(c) == "r" \in DOMAIN c

\* initCentroids: step = floor(n / k); pixels[i * step] for each i < k with
\* i * step < n.  i * step does not decrease with i, so the indices kept are
\* a prefix of 0..k-1.
initCentroids(pixels, k) ==
    LET step == Len(pixels) \div k
        kept == Cardinality({i \in 0..(k - 1) : i * step < Len(pixels)})
    IN  [i \in 1..kept |-> pixels[(i - 1) * step + 1]]

\* colorDistance squared.  The code compares Math.sqrt of this number with
\* '<'; the square root of an integer below 2^18 is monotone and injective
\* in double precision, so the comparison of the squares decides the same.
ColorDistance2(c1, c2) ==
    (c1.r - c2.r) * (c1.r - c2.r) + (c1.g - c2.g) * (c1.g - c2.g)
        + (c1.b - c2.b) * (c1.b - c2.b)

\* A plausible slip: '<=' in place of '<', so ties go to the highest index.
RECURSIVE ClosestScanLast(_, _, _, _, _)
ClosestScanLast(pixel, centroids, i, minDist, closestIdx) ==
    IF i >= Len(centroids) THEN closestIdx
    ELSE IF ~IsDefined(centroids[i + 1]) THEN "TypeError"
    ELSE IF minDist = -1 \/ ColorDistance2(pixel, centroids[i + 1]) <= minDist
         THEN ClosestScanLast(pixel, centroids, i + 1,
                              ColorDistance2(pixel, centroids[i + 1]), i)
         ELSE ClosestScanLast(pixel, centroids, i + 1, minDist, closestIdx)

\* The scan for the nearest centroid, from index i (0-based) on: minDist = -1
\* stands for Infinity; a strictly smaller distance replaces the best so far.
\* colorDistance reads c2.r, so an undefined centroid raises a TypeError,
\* the result of the scan then.  (extractDominantColors never gets there:
\* its centroids are undefined only when there is no pixel to scan for.)
RECURSIVE ClosestScan(_, _, _, _, _)
ClosestScan(pixel, centroids, i, minDist, closestIdx) ==
    IF i >= Len(centroids) THEN closestIdx
    ELSE IF ~IsDefined(centroids[i + 1]) THEN "TypeError"
    ELSE IF minDist = -1 \/ ColorDistance2(pixel, centroids[i + 1]) < minDist
         THEN ClosestScan(pixel, centroids, i + 1,
                          ColorDistance2(pixel, centroids[i + 1]), i)
         ELSE ClosestScan(pixel, centroids, i + 1, minDist, closestIdx)

ClosestIdx(pixel, centroids) == ClosestScan(pixel, centroids, 0, -1, 0)

\* clusters[i]: the samples assigned to centroid i (0-based), in sample order.
Cluster(pixels, centroids, i) ==
    SelectSeq(pixels, LAMBDA p : ClosestIdx(p, centroids) = i)

RECURSIVE SumChannel(_, _)
SumChannel(cluster, ch) ==
    IF cluster = <<>> THEN 0
    ELSE cluster[1][ch] + SumChannel(Tail(cluster), ch)

\* Math.round(sum / n) for sum >= 0: halves round up.
RoundDiv(sum, n) == (2 * sum + n) \div (2 * n)

\* A plausible slip: Math.floor in place of Math.round.
FloorDiv(sum, n) == sum \div n

\* The centroid i (0-based) after one pass: the old one (undefined when the
\* list is shorter than k) for an empty cluster, else the rounded mean.
NewCentroid(pixels, centroids, i) ==
    LET cluster == Cluster(pixels, centroids, i)
    IN  IF cluster = <<>>
        THEN IF i < Len(centroids) THEN centroids[i + 1] ELSE Undefined
        ELSE [r |-> RoundDiv(SumChannel(cluster, "r"), Len(cluster)),
              g |-> RoundDiv(SumChannel(cluster, "g"), Len(cluster)),
              b |-> RoundDiv(SumChannel(cluster, "b"), Len(cluster)),
              a |-> ByteMax]

\* One refinement pass: k new centroids.
RefinePass(pixels, centroids, k) ==
    [i \in 1..k |-> NewCentroid(pixels, centroids, i - 1)]

\* The number of refinement passes (the bound of the iteration loop).
Iterations == 3

RECURSIVE Refine(_, _, _, _)
Refine(pixels, centroids, k, n) ==
    IF n = 0 THEN centroids
    ELSE Refine(pixels, RefinePass(pixels, centroids, k), k, n - 1)

\* The centroids after the three passes.
FinalCentroids(data, k, rate) ==
    Refine(SamplePixels(data, rate), initCentroids(SamplePixels(data, rate), k),
           k, Iterations)

\* centroids.map(c => ({r: c.r, ...})) reads a property of every element: it
\* raises a TypeError when an element is undefined.
ExtractThrows(data, k, rate) ==
    \E i \in 1..Len(FinalCentroids(data, k, rate)) :
        ~IsDefined(FinalCentroids(data, k, rate)[i])

extractDominantColors(data, w, h, k, rate) ==
    [i \in 1..Len(FinalCentroids(data, k, rate)) |->
        LET c == FinalCentroids(data, k, rate)[i]
        IN  [r |-> c.r, g |-> c.g, b |-> c.b, hex |-> rgbToHex(c.r, c.g, c.b)]]

----------------------------------------------------------------------------
(* Bounds and inputs of the colour-extraction specification *)

\* Requested colour counts 1..MaxColors.
MaxColors == 3

\* Sample strides 1..MaxStride.
MaxStride == 2

\* Images of 0..MaxExtractWidth pixels in one row.
MaxExtractWidth == 4

\* The pixels the images are made of.
ExtractPixels == {<<255, 0, 0, 255>>, <<0, 0, 255, 255>>, <<10, 200, 7, 128>>}

\* The buffer holding the pixels px[1], ..., px[n] in a row.
BufferOf(px) ==
    [j \in 1..(Len(px) * Channels) |->
        px[((j - 1) \div Channels) + 1][((j - 1) % Channels) + 1]]

extractRest == <<levels, output, paletteHexColors, expandedPalette, points,
                 epsilon2, simplified, threshold,
                 otherVars>>

\* A row of five greys on which the clustering into two colours has not
\* settled after three passes.
SlowPixels ==
    << <<0, 0, 0, 255>>, <<30, 30, 30, 255>>, <<0, 0, 0, 255>>,
       <<50, 50, 50, 255>>, <<200, 200, 200, 255>> >>

InitExtract ==
    /\ \/ /\ width \in 0..MaxExtractWidth
          /\ \E px \in [1..width -> ExtractPixels] : imageData = BufferOf(px)
       \/ /\ width = Len(SlowPixels)
          /\ imageData = BufferOf(SlowPixels)
    /\ height = 1
    /\ numColors \in 1..MaxColors
    /\ sampleRate \in 1..MaxStride
    /\ op = "none"
    /\ passes = 0
    /\ thrown = FALSE
    /\ colors = <<>>
    /\ levels = 0
    /\ output = <<>>
    /\ paletteHexColors = <<>>
    /\ expandedPalette = <<>>
    /\ points = <<>>
    /\ epsilon2 = 0
    /\ simplified = <<>>
    /\ threshold = 0
    /\ OthersIdle

\* A call of extractDominantColors(imageData, width, height, numColors,
\* sampleRate): it returns the colour list, or raises the TypeError.  The
\* function has no store into a typed array: it reads imageData[i] and
\* pushes onto the lists pixels, clusters[i] and newCentroids.
ExtractDominantColors ==
    /\ op = "none"
    /\ op' = "extract"
    /\ passes' = 1
    /\ thrown' = ExtractThrows(imageData, numColors, sampleRate)
    /\ colors' = IF ExtractThrows(imageData, numColors, sampleRate)
                 THEN <<>>
                 ELSE extractDominantColors(imageData, width, height,
                                            numColors, sampleRate)
    /\ UNCHANGED <<imageData, width, height, numColors, sampleRate>>
    /\ aliased' = FALSE
    /\ UNCHANGED extractRest

NextExtract == ExtractDominantColors

SpecExtract == InitExtract /\ [][NextExtract]_vars

----------------------------------------------------------------------------
(* Properties of the colour-extraction specification *)

HexDigitsUpper ==
    <<"0", "1", "2", "3", "4", "5", "6", "7", "8", "9", "A", "B", "C", "D", "E", "F">>

\* The value of the two-digit hexadecimal number d1 d2, or -1 when either
\* character is no hexadecimal digit.
HexPairValue(d1, d2) ==
    IF \E i, j \in 1..16 : HexDigitsUpper[i] = ToUpperCase(d1)
                             /\ HexDigitsUpper[j] = ToUpperCase(d2)
    THEN LET i == CHOOSE i \in 1..16 : HexDigitsUpper[i] = ToUpperCase(d1)
             j == CHOOSE j \in 1..16 : HexDigitsUpper[j] = ToUpperCase(d2)
         IN  16 * (i - 1) + (j - 1)
    ELSE -1

\* C2: for k >= 1, stride >= 1 and a buffer that yields at least one sample,
\* extractDominantColors returns at most k colours, each with r, g, b in
\* 0..255 and a hex string '#' plus exactly 6 hexadecimal digits that encodes
\* the same (r, g, b).
C2_AtMostKValidColors ==
    (op = "extract" /\ NumSamples(imageData, sampleRate) >= 1)
        => /\ ~thrown
           /\ Len(colors) <= numColors
           /\ \A i \in 1..Len(colors) :
                 /\ colors[i].r \in Byte
                 /\ colors[i].g \in Byte
                 /\ colors[i].b \in Byte
                 /\ Len(colors[i].hex) = 7
                 /\ colors[i].hex[1] = "#"
                 /\ HexPairValue(colors[i].hex[2], colors[i].hex[3]) = colors[i].r
                 /\ HexPairValue(colors[i].hex[4], colors[i].hex[5]) = colors[i].g
                 /\ HexPairValue(colors[i].hex[6], colors[i].hex[7]) = colors[i].b

\* Three colours asked of four samples, one of them a mean with a one-digit
\* channel.
C2_Witness ==
    /\ op = "extract"
    /\ numColors = 3
    /\ Len(imageData) = 16
    /\ sampleRate = 1
    /\ Len(colors) = 3
    /\ \E i \in 1..Len(colors) : colors[i].hex = <<"#", "0", "5", "6", "4", "8", "3">>

----------------------------------------------------------------------------
(* Hex parsing: hexToRgb (palettes.ts) *)

\* The value of one hexadecimal digit, either case; -1 for any other character.
HexDigitValue(c) ==
    IF \E i \in 1..16 : HexDigitsLower[i] = c THEN
        (CHOOSE i \in 1..16 : HexDigitsLower[i] = c) - 1
    ELSE IF \E i \in 11..16 : ToUpperCase(HexDigitsLower[i]) = c THEN
        (CHOOSE i \in 11..16 : ToUpperCase(HexDigitsLower[i]) = c) - 1
    ELSE -1

\* The part of the string the three groups of the pattern must cover: the
\* string without its optional leading '#'.
HexBody(hex) == IF Len(hex) > 0 /\ hex[1] = "#" THEN Tail(hex) ELSE hex

\* /^#?([a-f\d]{2})([a-f\d]{2})([a-f\d]{2})$/i matches.
HexMatches(hex) ==
    /\ Len(HexBody(hex)) = 6
    /\ \A i \in 1..6 : HexDigitValue(HexBody(hex)[i]) >= 0

\* hexToRgb: the three parsed pairs, or [0, 0, 0] when the pattern fails.
hexToRgb(hex) ==
    IF ~HexMatches(hex) THEN <<0, 0, 0>>
    ELSE [i \in 1..3 |->
            16 * HexDigitValue(HexBody(hex)[2 * i - 1])
               + HexDigitValue(HexBody(hex)[2 * i])]

----------------------------------------------------------------------------
(* Number arithmetic: the IEEE 754 doubles and float32s of the engine *)

\* A JavaScript number that is no integer is held exactly, as a natural
\* number of binary units (2^-56 for luminosities, 2^-52 for distances,
\* 2^-107 for scores, 2^-112 for squared gradients).  Such naturals exceed
\* the machine integer, so they are written in base 2^14 as sequences of
\* limbs, least significant first, without leading zero limbs.
Limb == 2 ^ 14

Zero == <<>>

\* NaN (any operation on undefined) and Infinity.
NaN == <<-1>>
Infinity == <<-2>>

RECURSIVE Trim(_)
Trim(a) ==
    IF a = <<>> THEN a
    ELSE IF a[Len(a)] = 0 THEN Trim(SubSeq(a, 1, Len(a) - 1))
    ELSE a

\* n zero limbs.
ZeroLimbs(n) == [i \in 1..n |-> 0]

LimbAt(a, i) == IF i <= Len(a) THEN a[i] ELSE 0

\* The natural number n < 2^31 in limbs.
BigOf(n) ==
    Trim(<<n % Limb, (n \div Limb) % Limb, n \div (Limb * Limb)>>)

RECURSIVE AddFrom(_, _, _, _)
AddFrom(a, b, i, carry) ==
    IF i > Len(a) /\ i > Len(b)
    THEN IF carry = 0 THEN <<>> ELSE <<carry>>
    ELSE LET s == LimbAt(a, i) + LimbAt(b, i) + carry
         IN  <<s % Limb>> \o AddFrom(a, b, i + 1, s \div Limb)

\* a + b
BigAdd(a, b) == AddFrom(a, b, 1, 0)

RECURSIVE SubFrom(_, _, _, _)
SubFrom(a, b, i, borrow) ==
    IF i > Len(a) THEN <<>>
    ELSE LET d == a[i] - LimbAt(b, i) - borrow
         IN  IF d < 0 THEN <<d + Limb>> \o SubFrom(a, b, i + 1, 1)
             ELSE <<d>> \o SubFrom(a, b, i + 1, 0)

\* a - b, for a >= b
BigSub(a, b) == Trim(SubFrom(a, b, 1, 0))

RECURSIVE CmpFrom(_, _, _)
CmpFrom(a, b, i) ==
    IF i = 0 THEN 0
    ELSE IF a[i] > b[i] THEN 1
    ELSE IF a[i] < b[i] THEN -1
    ELSE CmpFrom(a, b, i - 1)

\* The sign of a - b.
BigCmp(a, b) ==
    IF Len(a) > Len(b) THEN 1
    ELSE IF Len(a) < Len(b) THEN -1
    ELSE CmpFrom(a, b, Len(a))

\* |a - b|
BigAbsDiff(a, b) == IF BigCmp(a, b) >= 0 THEN BigSub(a, b) ELSE BigSub(b, a)

RECURSIVE MulFrom(_, _, _, _)
MulFrom(a, k, i, carry) ==
    IF i > Len(a) THEN IF carry = 0 THEN <<>> ELSE <<carry>>
    ELSE LET p == a[i] * k + carry
         IN  <<p % Limb>> \o MulFrom(a, k, i + 1, p \div Limb)

\* a * k, for 0 <= k < 2^14
BigMulSmall(a, k) == IF k = 0 THEN <<>> ELSE MulFrom(a, k, 1, 0)

RECURSIVE MulAcc(_, _, _)
MulAcc(a, b, j) ==
    IF j > Len(b) THEN <<>>
    ELSE BigAdd(BigMulSmall(a, b[j]), <<0>> \o MulAcc(a, b, j + 1))

\* a * b
BigMul(a, b) == Trim(MulAcc(a, b, 1))

\* 2^s
Pow2(s) == ZeroLimbs(s \div 14) \o <<2 ^ (s % 14)>>

\* a * 2^s
BigShiftLeft(a, s) ==
    IF a = <<>> THEN a
    ELSE ZeroLimbs(s \div 14) \o BigMulSmall(a, 2 ^ (s % 14))

RECURSIVE DivFrom(_, _, _, _)
DivFrom(a, k, i, rem) ==
    IF i = 0 THEN <<<<>>, rem>>
    ELSE LET cur == rem * Limb + a[i]
             rest == DivFrom(a, k, i - 1, cur % k)
         IN  <<Append(rest[1], cur \div k), rest[2]>>

TrimQuotient(qr) == <<Trim(qr[1]), qr[2]>>

\* <<floor(a / k), a mod k>>, for 0 < k < 2^17
BigDivSmall(a, k) == TrimQuotient(DivFrom(a, k, Len(a), 0))

\* The number of binary digits of a.
BitLength(a) ==
    IF a = <<>> THEN 0
    ELSE 14 * (Len(a) - 1)
            + (CHOOSE k \in 1..14 : 2 ^ (k - 1) <= a[Len(a)] /\ a[Len(a)] < 2 ^ k)

\* The digits of a below digit s, for w = s div 14 and t = 2^(s mod 14).
LowDigits(a, w, t) == Trim(SubSeq(a, 1, w) \o <<a[w + 1] % t>>)

\* a with those digits cleared.
ClearLow(a, w, t) ==
    ZeroLimbs(w) \o <<a[w + 1] - (a[w + 1] % t)>> \o SubSeq(a, w + 2, Len(a))

\* TRUE when the digits below s are more than half of 2^s, or exactly half
\* of it with digit s odd.
RoundsUp(a, s, w, t) ==
    (2 * BigCmp(LowDigits(a, w, t), Pow2(s - 1))) + ((a[w + 1] \div t) % 2) > 0

\* a rounded to a multiple of 2^s, s > 0.
RoundAt(a, s, w, t) ==
    IF RoundsUp(a, s, w, t) THEN BigAdd(ClearLow(a, w, t), Pow2(s))
    ELSE ClearLow(a, w, t)

RoundOff(a, s) == IF s <= 0 THEN a ELSE RoundAt(a, s, s \div 14, 2 ^ (s % 14))

\* a rounded to p significant binary digits, to nearest, ties to the even
\* significand: the rounding of every IEEE 754 operation.  (No number of the
\* engine is near the overflow or the subnormal range.)
RoundToBits(a, p) == RoundOff(a, BitLength(a) - p)

\* The double nearest an exact result: 53 significant digits.
ToDouble(a) == RoundToBits(a, 53)

\* Storing a double into a Float32Array: 24 significant digits.
ToFloat32(a) == IF a = NaN THEN NaN ELSE RoundToBits(a, 24)

\* 2 q, plus 1 when the division or root that gave q was inexact: q with a
\* sticky digit below it, which rounds as the exact value does.
WithSticky(q, inexact) == BigAdd(BigMulSmall(q, 2), IF inexact THEN <<1>> ELSE <<>>)

QuotientSticky(qr) == WithSticky(qr[1], qr[2] # 0)

RootSticky(qr) == WithSticky(qr[1], qr[2] # <<>>)

\* The double a decimal literal num / den denotes, in units of 2^-unit (a
\* unit fine enough to hold it).
DoubleOf(num, den, unit) ==
    BigDivSmall(
        ToDouble(QuotientSticky(
            BigDivSmall(BigShiftLeft(BigOf(num), unit + 8), den))),
        2 ^ 9)[1]

\* a < b on doubles: false when either is NaN.
LessThan(a, b) ==
    /\ a # NaN
    /\ b # NaN
    /\ a # Infinity
    /\ (b = Infinity \/ BigCmp(a, b) < 0)

\* The largest s in lo..hi with s * s <= x, given lo * lo <= x < (hi + 1)^2.
RECURSIVE IsqrtBetween(_, _, _)
IsqrtBetween(x, lo, hi) ==
    IF lo = hi THEN lo
    ELSE LET mid == (lo + hi + 1) \div 2
         IN  IF mid * mid <= x THEN IsqrtBetween(x, mid, hi)
             ELSE IsqrtBetween(x, lo, mid - 1)

\* <<d * 4^k, k>> for the least k with d * 4^k >= 2^26, for 1 <= d < 2^28.
RECURSIVE ScaleUp(_, _)
ScaleUp(d, k) == IF d >= 2 ^ 26 THEN <<d, k>> ELSE ScaleUp(4 * d, k + 1)

\* The largest digit d <= guess with (2 q B + d) d <= r B^2, where B is the
\* limb base, q2 is 2 q and rr is r B^2.
RECURSIVE RootDigit(_, _, _)
RootDigit(q2, rr, guess) ==
    IF guess = 0 \/ BigCmp(BigMulSmall(<<guess>> \o q2, guess), rr) <= 0 THEN guess
    ELSE RootDigit(q2, rr, guess - 1)

\* An upper estimate of the next digit of the root q with remainder r,
\* given h = r B / 2: floor(r B / (2 q)) is the most the digit can be, and
\* the quotient of the leading limbs exceeds it by at most 2.
RootEstimate(h, q) ==
    LET est == ((LimbAt(h, Len(q) + 1) * Limb) + LimbAt(h, Len(q))) \div q[Len(q)]
    IN  IF est > Limb - 1 THEN Limb - 1 ELSE est

\* r B^2
Widen(r) == IF r = <<>> THEN r ELSE <<0, 0>> \o r

\* The root and remainder with the digit appended.
RootAppend(q, q2, rr, digit) ==
    << <<digit>> \o q, BigSub(rr, BigMulSmall(<<digit>> \o q2, digit)) >>

\* One more limb of a square root: from the root q of n limbs, its top limb
\* at least B / 2, and the remainder r <= 2 q, to those of the number
\* extended by two zero limbs.
RootStep(qr) ==
    RootAppend(qr[1], BigMulSmall(qr[1], 2), Widen(qr[2]),
               RootDigit(BigMulSmall(qr[1], 2), Widen(qr[2]),
                         RootEstimate(BigMulSmall(qr[2], Limb \div 2), qr[1])))

\* The root of n to 14 binary digits, and the remainder.
FirstDigits(n, q0) == << <<q0>>, BigOf(n - (q0 * q0)) >>

\* m * 2^(9 - k)
Unscale(m, k) ==
    IF k <= 9 THEN BigShiftLeft(m, 9 - k) ELSE BigDivSmall(m, 2 ^ (k - 9))[1]

\* Math.sqrt(d) for an integer 0 <= d < 2^28, in units of 2^-52: the root
\* of x[1] = d * 4^k to 14 binary digits, extended to 56, and rounded to 53
\* with the remainder as the sticky digit.
SqrtScaled(x) ==
    Unscale(
        ToDouble(RootSticky(RootStep(RootStep(RootStep(
            FirstDigits(x[1], IsqrtBetween(x[1], Limb \div 2, Limb - 1))))))),
        x[2])

Sqrt(d) == IF d = 0 THEN Zero ELSE SqrtScaled(ScaleUp(d, 0))

\* Math.sqrt(x) > t for a double x >= 0 in units of 2^-112 and an integer
\* t >= 0.  Math.sqrt rounds the root to the nearest double, and the double
\* next above t is t + u with u = 2^(e - 52), 2^e <= t < 2^(e + 1); the
\* midpoint t + u / 2 rounds to t, whose significand is even.  So the
\* rounded root exceeds t exactly when x > (t + u / 2)^2.
SqrtExceeds(x, t) ==
    IF t = 0 THEN x # Zero
    ELSE LET e == BitLength(BigOf(t)) - 1
             bound == BigAdd(BigShiftLeft(BigOf(t * t), 112),
                             BigAdd(BigShiftLeft(BigOf(t), e + 60), Pow2(2 * e + 6)))
         IN  BigCmp(x, bound) > 0

----------------------------------------------------------------------------
(* PaletteSynthesizer: getLuminosity, mixColors, generateMixedPalette *)

\* The literals 0.299, 0.587 and 0.114 as doubles, in units of 2^-56.
Weight299 == DoubleOf(299, 1000, 56)
Weight587 == DoubleOf(587, 1000, 56)
Weight114 == DoubleOf(114, 1000, 56)

\* getLuminosity: 0.299 * r + 0.587 * g + 0.114 * b in double arithmetic,
\* each product and each sum rounded, in units of 2^-56; NaN when a channel
\* is undefined.
getLuminosity(r, g, b) ==
    IF r < 0 \/ g < 0 \/ b < 0 THEN NaN
    ELSE ToDouble(BigAdd(ToDouble(BigAdd(ToDouble(BigMulSmall(Weight299, r)),
                                         ToDouble(BigMulSmall(Weight587, g)))),
                         ToDouble(BigMulSmall(Weight114, b))))

\* The pairs (c1, c2) for which c1 * (1 - 0.33) + c2 * 0.33, an exact half in
\* real arithmetic, falls just below the half in double precision, so that
\* Math.round rounds it down.
RoundsDown33 ==
    { <<47, 97>>, <<51, 1>>, <<52, 2>>, <<54, 4>>, <<55, 5>>, <<56, 6>>,
      <<59, 9>>, <<60, 10>>, <<62, 12>>, <<63, 13>>, <<64, 14>>, <<67, 17>>,
      <<68, 18>>, <<70, 20>>, <<71, 21>>, <<72, 22>>, <<75, 25>>, <<76, 26>>,
      <<78, 28>>, <<79, 29>>, <<80, 30>>, <<86, 36>>, <<94, 44>>, <<101, 51>>,
      <<102, 52>>, <<108, 58>>, <<108, 158>>, <<109, 59>>, <<110, 60>>, <<117, 67>>,
      <<118, 68>>, <<119, 69>>, <<124, 74>>, <<125, 75>>, <<126, 76>>, <<127, 77>>,
      <<133, 83>>, <<134, 84>>, <<135, 85>>, <<140, 90>>, <<141, 91>>, <<142, 92>>,
      <<143, 93>>, <<150, 0>>, <<151, 1>>, <<152, 2>>, <<153, 3>>, <<154, 4>>,
      <<156, 6>>, <<157, 7>>, <<158, 8>>, <<159, 9>>, <<160, 10>>, <<161, 11>>,
      <<162, 12>>, <<165, 15>>, <<166, 16>>, <<167, 17>>, <<168, 18>>, <<169, 19>>,
      <<170, 20>>, <<172, 22>>, <<173, 23>>, <<174, 24>>, <<175, 25>>, <<176, 26>>,
      <<177, 27>>, <<181, 31>>, <<182, 32>>, <<188, 38>>, <<188, 138>>, <<189, 39>>,
      <<190, 40>>, <<193, 43>>, <<193, 143>>, <<193, 243>>, <<195, 45>>, <<195, 145>>,
      <<197, 47>>, <<202, 52>>, <<202, 152>>, <<204, 54>>, <<204, 154>>, <<206, 56>>,
      <<209, 59>>, <<209, 159>>, <<211, 61>>, <<211, 161>>, <<213, 63>>, <<213, 163>>,
      <<215, 65>>, <<216, 66>>, <<216, 166>>, <<218, 68>>, <<218, 168>>, <<220, 70>>,
      <<220, 170>>, <<222, 72>>, <<225, 75>>, <<225, 175>>, <<227, 77>>, <<227, 177>>,
      <<229, 79>>, <<229, 179>>, <<231, 81>>, <<234, 84>>, <<234, 184>>, <<236, 86>>,
      <<236, 186>>, <<238, 88>>, <<241, 91>>, <<241, 191>>, <<243, 93>>, <<243, 193>>,
      <<245, 95>>, <<247, 97>>, <<248, 98>>, <<248, 198>>, <<250, 0>>, <<250, 100>>,
      <<250, 200>>, <<252, 2>>, <<252, 102>>, <<252, 202>>, <<254, 4>>, <<254, 104>> }

\* The same for c1 * (1 - 0.66) + c2 * 0.66.
RoundsDown66 ==
    { <<75, 0>>, <<76, 1>>, <<77, 2>>, <<78, 3>>, <<79, 4>>, <<80, 5>>,
      <<125, 0>>, <<126, 1>>, <<127, 2>>, <<128, 3>>, <<130, 5>>, <<132, 7>>,
      <<134, 9>>, <<136, 11>>, <<138, 13>>, <<140, 15>>, <<142, 17>>, <<144, 19>>,
      <<146, 21>>, <<175, 0>>, <<176, 1>>, <<177, 2>>, <<178, 3>>, <<179, 4>>,
      <<181, 6>>, <<183, 8>>, <<185, 10>>, <<187, 12>>, <<189, 14>>, <<193, 18>>,
      <<197, 22>>, <<201, 26>>, <<205, 30>>, <<209, 34>>, <<213, 38>>, <<217, 42>>,
      <<221, 46>>, <<226, 1>>, <<227, 2>>, <<230, 5>>, <<231, 6>>, <<234, 9>>,
      <<235, 10>>, <<238, 13>>, <<239, 14>>, <<242, 17>>, <<242, 67>>, <<243, 18>>,
      <<246, 21>>, <<247, 22>>, <<250, 25>>, <<251, 26>>, <<254, 29>>, <<255, 30>> }

\* A plausible slip: Math.floor in place of Math.round.
MixChannelFloor(c1, c2, pct) == (c1 * (100 - pct) + c2 * pct) \div 100

\* Math.round(c1 * (1 - ratio) + c2 * ratio) for ratio = pct / 100.  Halves
\* round up; 0.25, 0.5 and 0.75 are exact in binary, and for 0.33 and 0.66
\* the two tables list the halves that double precision rounds down.
MixChannel(c1, c2, pct) ==
    IF (pct = 33 /\ <<c1, c2>> \in RoundsDown33)
          \/ (pct = 66 /\ <<c1, c2>> \in RoundsDown66)
    THEN (c1 * (100 - pct) + c2 * pct) \div 100
    ELSE (2 * (c1 * (100 - pct) + c2 * pct) + 100) \div 200

mixColors(r1, g1, b1, r2, g2, b2, pct) ==
    [r |-> MixChannel(r1, r2, pct),
     g |-> MixChannel(g1, g2, pct),
     b |-> MixChannel(b1, b2, pct)]

\* An entry of the expanded palette: a colour with its luminosity.
PaletteEntry(c) ==
    [r |-> c.r, g |-> c.g, b |-> c.b, luminosity |-> getLuminosity(c.r, c.g, c.b)]

\* paletteHexColors.map(hex => { const [r, g, b] = hexToRgb(hex); ... })
BaseColors(hexes) ==
    [i \in 1..Len(hexes) |->
        LET rgb == hexToRgb(hexes[i])
        IN  [r |-> rgb[1], g |-> rgb[2], b |-> rgb[3]]]

\* The ratios, in percent, of the tints and shades.
TintRatios == <<25, 50, 75>>

\* The ratios, in percent, of the blends of two base colours.
BlendRatios == <<33, 50, 66>>

\* The pure palette colours, in order.
PureColors(base) == [i \in 1..Len(base) |-> PaletteEntry(base[i])]

\* A plausible slip: the shades are left out.
TintsOnly(c) ==
    [k \in 1..3 |-> PaletteEntry(mixColors(c.r, c.g, c.b, 255, 255, 255, TintRatios[k]))]

\* The three tints (towards white), then the three shades (towards black),
\* of one base colour.
TintsAndShades(c) ==
    [k \in 1..6 |->
        IF k <= 3
        THEN PaletteEntry(mixColors(c.r, c.g, c.b, 255, 255, 255, TintRatios[k]))
        ELSE PaletteEntry(mixColors(c.r, c.g, c.b, 0, 0, 0, TintRatios[k - 3]))]

RECURSIVE AllTintsAndShades(_, _)
AllTintsAndShades(base, i) ==
    IF i > Len(base) THEN <<>>
    ELSE TintsAndShades(base[i]) \o AllTintsAndShades(base, i + 1)

\* The three blends of the base colours i and j.
Blends(base, i, j) ==
    [k \in 1..3 |->
        PaletteEntry(mixColors(base[i].r, base[i].g, base[i].b,
                               base[j].r, base[j].g, base[j].b, BlendRatios[k]))]

\* A plausible slip: the inner loop starts at j = i, blending a colour with itself.
RECURSIVE PairBlendsFromSelf(_, _, _)
PairBlendsFromSelf(base, i, j) ==
    IF i > Len(base) THEN <<>>
    ELSE IF j > Len(base) THEN PairBlendsFromSelf(base, i + 1, i + 1)
    ELSE Blends(base, i, j) \o PairBlendsFromSelf(base, i, j + 1)

\* for (i ...) for (j = i + 1 ...): the blends from the pair (i, j) on; the
\* code's indices are 0-based, these are 1-based.
RECURSIVE PairBlends(_, _, _)
PairBlends(base, i, j) ==
    IF i > Len(base) THEN <<>>
    ELSE IF j > Len(base) THEN PairBlends(base, i + 1, i + 2)
    ELSE Blends(base, i, j) \o PairBlends(base, i, j + 1)

\* generateMixedPalette: pure colours, tints and shades, pairwise blends.
generateMixedPalette(hexes) ==
    LET baseColors == BaseColors(hexes)
    IN  PureColors(baseColors)
            \o AllTintsAndShades(baseColors, 1)
            \o PairBlends(baseColors, 1, 2)

----------------------------------------------------------------------------
(* PaletteMatcher: remapImageToPalette *)

\* expandedPalette.sort((a, b) => a.luminosity - b.luminosity): the sort is
\* stable, so an entry goes after every entry whose luminosity, as a double,
\* is at most its own.
RECURSIVE InsertByLuminosity(_, _)
InsertByLuminosity(sorted, e) ==
    IF sorted = <<>> THEN <<e>>
    ELSE IF BigCmp(sorted[Len(sorted)].luminosity, e.luminosity) <= 0
         THEN Append(sorted, e)
    ELSE Append(InsertByLuminosity(SubSeq(sorted, 1, Len(sorted) - 1), e),
                sorted[Len(sorted)])

RECURSIVE SortByLuminosity(_)
SortByLuminosity(entries) ==
    IF entries = <<>> THEN <<>>
    ELSE InsertByLuminosity(SortByLuminosity(SubSeq(entries, 1, Len(entries) - 1)),
                            entries[Len(entries)])

Abs(x) == IF x < 0 THEN -x ELSE x

\* Math.pow(r - e.r, 2) + Math.pow(g - e.g, 2) + Math.pow(b - e.b, 2): an
\* integer, exact in double arithmetic.
RgbDistance2(r, g, b, e) ==
    (r - e.r) * (r - e.r) + (g - e.g) * (g - e.g) + (b - e.b) * (b - e.b)

\* The literal 0.15 as a double, in units of 2^-55.
Weight015 == DoubleOf(15, 100, 55)

\* A plausible slip: the colour distance is left out of the score.
MatchScoreLuminosityOnly(pixelLuminosity, r, g, b, e) ==
    IF pixelLuminosity = NaN THEN NaN
    ELSE BigShiftLeft(
             ToDouble(BigMulSmall(
                 ToDouble(BigAbsDiff(pixelLuminosity, e.luminosity)), 3)), 50)

\* score = (luminosityDiff * 1.5) + (colorDist * 0.15) in double arithmetic,
\* in units of 2^-107: luminosityDiff in units of 2^-56 times 1.5 = 3 / 2,
\* colorDist in units of 2^-52 times 0.15 in units of 2^-55, each of the
\* difference, the root, the two products and the sum rounded.  NaN for a
\* pixel with an undefined channel.
MatchScore(pixelLuminosity, r, g, b, e) ==
    IF pixelLuminosity = NaN THEN NaN
    ELSE LET luminosityDiff == ToDouble(BigAbsDiff(pixelLuminosity, e.luminosity))
             colorDist == Sqrt(RgbDistance2(r, g, b, e))
         IN  ToDouble(BigAdd(
                 BigShiftLeft(ToDouble(BigMulSmall(luminosityDiff, 3)), 50),
                 ToDouble(BigMul(colorDist, Weight015))))

\* The scan for the best match from entry i on, in sorted order: best is the
\* index of bestMatch, which starts as the first entry; a strictly lower
\* score replaces it, and a NaN score never does.
RECURSIVE BestScan(_, _, _, _, _, _, _, _)
RECURSIVE ScanStep(_, _, _, _, _, _, _, _, _)
ScanStep(pixelLuminosity, r, g, b, sorted, i, minScore, best, score) ==
    IF LessThan(score, minScore)
    THEN BestScan(pixelLuminosity, r, g, b, sorted, i + 1, score, i)
    ELSE BestScan(pixelLuminosity, r, g, b, sorted, i + 1, minScore, best)

BestScan(pixelLuminosity, r, g, b, sorted, i, minScore, best) ==
    IF i > Len(sorted) THEN best
    ELSE ScanStep(pixelLuminosity, r, g, b, sorted, i, minScore, best,
                  MatchScore(pixelLuminosity, r, g, b, sorted[i]))

\* bestMatch for one pixel: an entry of the sorted palette.
BestMatch(r, g, b, sorted) ==
    sorted[BestScan(getLuminosity(r, g, b), r, g, b, sorted, 1, Infinity, 1)]

\* The sorted expanded palette of one remap call.
SortedPalette(hexes) == SortByLuminosity(generateMixedPalette(hexes))

\* With an empty palette bestMatch is undefined and reading bestMatch.r
\* raises a TypeError at the first pixel.
RemapThrows(data, hexes) == Len(data) > 0 /\ Len(hexes) = 0

\* The loop for (i = 0; i < length; i += 4) from byte offset i on: the best
\* match's r, g, b and the pixel's own alpha, of which the bytes that fall
\* past the end of the output buffer are dropped.
RemappedPixel(bestMatch, a) == <<bestMatch.r, bestMatch.g, bestMatch.b, a>>

RECURSIVE RemapFrom(_, _, _)
RemapFrom(data, sorted, i) ==
    IF i >= Len(data) THEN <<>>
    ELSE LET n == IF Len(data) - i < Channels THEN Len(data) - i ELSE Channels
         IN  SubSeq(RemappedPixel(BestMatch(ByteAt(data, i), ByteAt(data, i + 1),
                                            ByteAt(data, i + 2), sorted),
                                  ByteAt(data, i + 3)), 1, n)
                 \o RemapFrom(data, sorted, i + Channels)

\* remapImageToPalette: a buffer of the input's length.
remapImageToPalette(data, hexes) == RemapFrom(data, SortedPalette(hexes), 0)

----------------------------------------------------------------------------
(* Bounds and inputs of the palette specification *)

\* Base palettes of 0..MaxBase colours.
MaxBase == 2

\* The hex strings the base palettes are made of: upper and lower case, with
\* and without '#', and a 3-digit shorthand (malformed).
PaletteHexes ==
    { <<"#", "0", "0", "0", "0", "0", "0">>,
      <<"#", "F", "F", "F", "F", "F", "F">>,
      <<"#", "f", "f", "8", "0", "4", "0">>,
      <<"C", "8", "1", "E", "3", "C">>,
      <<"#", "F", "F", "F">> }

\* The hex strings the remapped palettes are made of: white, a colour
\* written without '#', and the malformed shorthand.
RemapHexes ==
    { <<"#", "F", "F", "F", "F", "F", "F">>,
      <<"C", "8", "1", "E", "3", "C">>,
      <<"#", "F", "F", "F">> }

\* The palette of the specification's remapping scenario.
BlackAndWhite ==
    << <<"#", "0", "0", "0", "0", "0", "0">>, <<"#", "F", "F", "F", "F", "F", "F">> >>

\* Pixels that are no entry of most palettes.
FixedPixels ==
    { <<128, 128, 128, 255>>, <<200, 100, 50, 0>>, <<190, 105, 245, 255>> }

\* Buffers that end inside a pixel: after its red, green or blue byte.
RaggedBuffers ==
    { <<128, 128, 128, 255, 10>>, <<200, 100>>, <<10, 20, 30, 40, 200, 100, 50>> }

\* The entries of a palette's expanded set as pixels, with an alpha of their own.
EntryPixelsOf(expanded) ==
    { <<expanded[i].r, expanded[i].g, expanded[i].b, 77>> : i \in 1..Len(expanded) }

EntryPixels(hexes) == EntryPixelsOf(generateMixedPalette(hexes))

\* The buffers remapped against a palette: the empty one, every one-pixel
\* buffer of the pixels above, one of two pixels, and the ragged ones.
PaletteBuffers(hexes) ==
    { <<>>, <<128, 128, 128, 255, 10, 20, 30, 40>> }
        \cup FixedPixels \cup EntryPixels(hexes) \cup RaggedBuffers

paletteRest == <<levels, numColors, sampleRate, colors, points, epsilon2,
                 simplified, threshold,
                 otherVars>>

InitPalette ==
    /\ \/ \E n \in 0..MaxBase : paletteHexColors \in [1..n -> RemapHexes]
       \/ paletteHexColors = BlackAndWhite
    /\ imageData \in PaletteBuffers(paletteHexColors)
    /\ width = Len(imageData) \div Channels
    /\ height = 1
    /\ op = "none"
    /\ passes = 0
    /\ thrown = FALSE
    /\ expandedPalette = <<>>
    /\ output = <<>>
    /\ levels = 0
    /\ numColors = 0
    /\ sampleRate = 0
    /\ colors = <<>>
    /\ points = <<>>
    /\ epsilon2 = 0
    /\ simplified = <<>>
    /\ threshold = 0
    /\ OthersIdle

\* A call of generateMixedPalette(paletteHexColors).
GenerateMixedPalette ==
    /\ op = "none"
    /\ op' = "synthesize"
    /\ passes' = 1
    /\ thrown' = FALSE
    /\ expandedPalette' = generateMixedPalette(paletteHexColors)
    /\ UNCHANGED <<imageData, width, height, paletteHexColors, output>>
    /\ aliased' = FALSE
    /\ UNCHANGED paletteRest

\* const remapped = new Uint8ClampedArray(imageData.length).
Remapped == NewBuffer

\* A call of remapImageToPalette(imageData, paletteHexColors): it returns
\* the remapped buffer, or raises the TypeError, which the read of
\* bestMatch.r raises before the first store.
RemapImageToPalette ==
    /\ op = "none"
    /\ op' = "remap"
    /\ passes' = 1
    /\ thrown' = RemapThrows(imageData, paletteHexColors)
    /\ output' = IF RemapThrows(imageData, paletteHexColors) THEN <<>>
                 ELSE remapImageToPalette(imageData, paletteHexColors)
    /\ imageData' = IF RemapThrows(imageData, paletteHexColors) THEN imageData
                    ELSE ArgumentAfter(Remapped, imageData, output')
    /\ UNCHANGED <<width, height, paletteHexColors, expandedPalette>>
    /\ aliased' = FALSE
    /\ UNCHANGED paletteRest

\* The caller remaps the buffer it got back against the same palette, once.
RemapAgain ==
    /\ op = "remap"
    /\ passes = 1
    /\ ~thrown
    /\ imageData' = output
    /\ output' = remapImageToPalette(output, paletteHexColors)
    /\ passes' = passes + 1
    /\ UNCHANGED <<op, thrown, width, height, paletteHexColors, expandedPalette>>
    /\ aliased' = FALSE
    /\ UNCHANGED paletteRest

NextPalette == GenerateMixedPalette \/ RemapImageToPalette \/ RemapAgain

SpecPalette == InitPalette /\ [][NextPalette]_vars

----------------------------------------------------------------------------
(* Properties of the palette specification *)

HexBlack == <<"#", "0", "0", "0", "0", "0", "0">>
HexWhite == <<"#", "F", "F", "F", "F", "F", "F">>

\* C6: for a list of n >= 0 base colours palette synthesis returns exactly
\* 7 n + 3 n (n - 1) / 2 entries: nothing is de-duplicated.
C6_CandidateCount ==
    op = "synthesize"
        => Len(expandedPalette)
              = 7 * Len(paletteHexColors)
                  + 3 * ((Len(paletteHexColors) * (Len(paletteHexColors) - 1)) \div 2)

\* Two equal base colours: 17 entries, of which many are numerically identical.
C6_Witness ==
    /\ op = "synthesize"
    /\ paletteHexColors = <<HexWhite, HexWhite>>
    /\ Len(expandedPalette) = 17
    /\ expandedPalette[1] = expandedPalette[2]

\* C7 as stated: the expanded palette of #000000 and #FFFFFF has exactly 11
\* candidates.  (Violated: it has 17.)
C7_ElevenCandidates ==
    (op = "synthesize" /\ paletteHexColors = <<HexBlack, HexWhite>>)
        => Len(expandedPalette) = 11

\* C7 amended: the expanded palette of #000000 and #FFFFFF has exactly 17
\* candidates (2 base colours, 6 tints, 6 shades, 3 blends).
C7_SeventeenCandidates ==
    (op = "synthesize" /\ paletteHexColors = <<HexBlack, HexWhite>>)
        => Len(expandedPalette) = 17

C7_Witness ==
    /\ op = "synthesize"
    /\ paletteHexColors = <<HexBlack, HexWhite>>
    /\ Len(expandedPalette) = 17
    /\ expandedPalette[16] = [r |-> 128, g |-> 128, b |-> 128,
                             luminosity |-> getLuminosity(128, 128, 128)]

\* The pixel (r, g, b, a) at position p (1-based) of a buffer.
PixelOf(data, p) == SubSeq(data, Channels * (p - 1) + 1, Channels * p)

\* TRUE when the RGB of pixel p of the buffer is the RGB of some entry of
\* the expanded palette.
IsPaletteColor(data, p, hexes) ==
    LET expanded == generateMixedPalette(hexes)
    IN  \E i \in 1..Len(expanded) :
            /\ expanded[i].r = PixelOf(data, p)[1]
            /\ expanded[i].g = PixelOf(data, p)[2]
            /\ expanded[i].b = PixelOf(data, p)[3]

\* C8: remapToPalette leaves unchanged every pixel whose RGB is the RGB of an
\* entry of the expanded palette; with the base palette #000000, #FFFFFF the
\* pixel (128, 128, 128) stays (128, 128, 128); and remapping a remapped
\* buffer against the same non-empty palette changes nothing.
C8_PaletteColorsFixed ==
    (op = "remap" /\ ~thrown)
        => /\ \A p \in 1..(Len(imageData) \div Channels) :
                 IsPaletteColor(imageData, p, paletteHexColors)
                    => PixelOf(output, p) = PixelOf(imageData, p)
           /\ \A p \in 1..(Len(imageData) \div Channels) :
                 (paletteHexColors = <<HexBlack, HexWhite>>
                    /\ SubSeq(PixelOf(imageData, p), 1, 3) = <<128, 128, 128>>)
                    => SubSeq(PixelOf(output, p), 1, 3) = <<128, 128, 128>>
           /\ passes >= 2 => output = imageData

\* The scenario: (128, 128, 128) remapped against #000000, #FFFFFF.
C8_Witness ==
    /\ op = "remap"
    /\ passes = 1
    /\ paletteHexColors = <<HexBlack, HexWhite>>
    /\ imageData = <<128, 128, 128, 255>>
    /\ output = <<128, 128, 128, 255>>

----------------------------------------------------------------------------
(* RegionTracer: simplifyContour and perpendicularDistance *)

\* A point is a pair <<x, y>>.  The numerator of perpendicularDistance:
\* |(y2 - y1) x - (x2 - x1) y + x2 y1 - y2 x1|.
DistanceNumerator(point, lineStart, lineEnd) ==
    Abs((lineEnd[2] - lineStart[2]) * point[1]
          - (lineEnd[1] - lineStart[1]) * point[2]
          + lineEnd[1] * lineStart[2] - lineEnd[2] * lineStart[1])

\* The square of its denominator: (y2 - y1)^2 + (x2 - x1)^2.
DistanceDenominator2(lineStart, lineEnd) ==
    (lineEnd[2] - lineStart[2]) * (lineEnd[2] - lineStart[2])
        + (lineEnd[1] - lineStart[1]) * (lineEnd[1] - lineStart[1])

\* The loop of simplifyContour over i = 1 .. length - 2 (0-based): index of
\* the first point of strictly greatest distance, 0 while no distance
\* exceeds 0.  All distances of one call share the denominator, so they
\* compare as their numerators do; with a zero denominator every distance
\* is 0.  maxNum is the numerator of maxDistance.
RECURSIVE MaxScan(_, _, _, _)
MaxScan(pts, i, maxNum, index) ==
    IF i > Len(pts) - 2 THEN <<maxNum, index>>
    ELSE LET num == IF DistanceDenominator2(pts[1], pts[Len(pts)]) = 0 THEN 0
                    ELSE DistanceNumerator(pts[i + 1], pts[1], pts[Len(pts)])
         IN  IF num > maxNum THEN MaxScan(pts, i + 1, num, i)
             ELSE MaxScan(pts, i + 1, maxNum, index)

\* maxDistance > epsilon, with eps2 = 2 epsilon: num / sqrt(den2) > eps2 / 2
\* exactly when 4 num^2 > eps2^2 den2 (both sides are non-negative).
ExceedsEpsilon(maxNum, den2, eps2) ==
    den2 > 0 /\ 4 * maxNum * maxNum > eps2 * eps2 * den2

\* A plausible slip: the join point is kept twice.
JoinKeepingBoth(left, right) == left \o right

\* left.slice(0, -1).concat(right)
JoinHalves(left, right) == SubSeq(left, 1, Len(left) - 1) \o right

RECURSIVE simplifyContour(_, _)
simplifyContour(pts, eps2) ==
    IF Len(pts) < 3 THEN pts
    ELSE LET scan == MaxScan(pts, 1, 0, 0)
             index == scan[2]
         IN  IF ExceedsEpsilon(scan[1], DistanceDenominator2(pts[1], pts[Len(pts)]), eps2)
             THEN JoinHalves(simplifyContour(SubSeq(pts, 1, index + 1), eps2),
                             simplifyContour(SubSeq(pts, index + 1, Len(pts)), eps2))
             ELSE <<pts[1], pts[Len(pts)]>>

----------------------------------------------------------------------------
(* Bounds and inputs of the contour specification *)

\* Point sequences of 0..MaxPoints points.
MaxPoints == 4

\* The points: a 3 x 3 grid.
ContourPoints == (0..2) \X (0..2)

\* Twice the epsilons: 0, 0.5, 1 and 2.5 (the value traceContour passes).
Epsilons2 == {0, 1, 2, 5}

contourRest == <<imageData, width, height, levels, output, numColors, sampleRate,
                 colors, paletteHexColors, expandedPalette, threshold,
                 otherVars>>

InitContour ==
    /\ \E n \in 0..MaxPoints : points \in [1..n -> ContourPoints]
    /\ epsilon2 \in Epsilons2
    /\ simplified = <<>>
    /\ op = "none"
    /\ passes = 0
    /\ thrown = FALSE
    /\ imageData = <<>>
    /\ width = 0
    /\ height = 0
    /\ levels = 0
    /\ output = <<>>
    /\ numColors = 0
    /\ sampleRate = 0
    /\ colors = <<>>
    /\ paletteHexColors = <<>>
    /\ expandedPalette = <<>>
    /\ threshold = 0
    /\ OthersIdle

\* A call of simplifyContour(points, epsilon): fewer than 3 points are
\* returned as the argument array itself.
SimplifyContour ==
    /\ op = "none"
    /\ op' = "simplify"
    /\ passes' = 1
    /\ thrown' = FALSE
    /\ simplified' = simplifyContour(points, epsilon2)
    /\ UNCHANGED <<points, epsilon2>>
    /\ aliased' = (Len(points) < 3)
    /\ UNCHANGED contourRest

NextContour == SimplifyContour

SpecContour == InitContour /\ [][NextContour]_vars

----------------------------------------------------------------------------
(* Properties of the contour specification *)

\* C9: simplifyContour returns a sequence no longer than its input, whose
\* first point is the input's first point and whose last point is the
\* input's last point.
C9_NoLongerSameEnds ==
    op = "simplify"
        => /\ Len(simplified) <= Len(points)
           /\ Len(points) >= 1
                => /\ Len(simplified) >= 1
                   /\ simplified[1] = points[1]
                   /\ simplified[Len(simplified)] = points[Len(points)]

\* A split at a far point whose halves are both kept whole and joined: all
\* four points survive, the join point once.
C9_Witness ==
    /\ op = "simplify"
    /\ epsilon2 = 1
    /\ points = << <<0, 0>>, <<1, 2>>, <<2, 0>>, <<0, 1>> >>
    /\ Len(simplified) = 4

----------------------------------------------------------------------------
(* EdgeField: detectEdgesSobel *)

\* sobelX and sobelY, indexed by (ky + 1) * 3 + (kx + 1) + 1.
SobelX == <<-1, 0, 1, -2, 0, 2, -1, 0, 1>>
SobelY == <<-1, -2, -1, 0, 0, 0, 1, 2, 1>>

\* gray[p] after the grayscale loop, in units of 2^-56: the luminosity of
\* pixel p rounded to float32 by the store into the Float32Array, NaN when
\* the buffer ends inside the pixel, and the initial 0 when the buffer ends
\* before it.
GrayAt(data, p) ==
    IF p * Channels >= Len(data) THEN Zero
    ELSE ToFloat32(getLuminosity(ByteAt(data, p * Channels),
                                 ByteAt(data, p * Channels + 1),
                                 ByteAt(data, p * Channels + 2)))

\* The Float32Array gray of n = width * height elements, from element p on
\* (a store past its end is dropped).
RECURSIVE GrayPlane(_, _, _)
GrayPlane(data, n, p) ==
    IF p >= n THEN <<>> ELSE <<GrayAt(data, p)>> \o GrayPlane(data, n, p + 1)

\* The 3 x 3 neighbourhood of (x, y) in kernel order.
KernelOffsets ==
    << <<-1, -1>>, <<0, -1>>, <<1, -1>>,
       <<-1, 0>>,  <<0, 0>>,  <<1, 0>>,
       <<-1, 1>>,  <<0, 1>>,  <<1, 1>> >>

\* The sum over the kernel entries k..9 of gray[idx] * kernel[kernelIdx], as
\* the pair <<sum of the positive products, minus the sum of the negative
\* products>>, or NaN when a gray read is NaN.  Every gray value is a
\* multiple of 2^-27 below 2^8, so every product and partial sum is a
\* multiple of 2^-27 below 2^11 and the double additions are exact.
RECURSIVE Convolve(_, _, _, _, _, _)
Convolve(gray, w, x, y, kernel, k) ==
    IF k > 9 THEN <<Zero, Zero>>
    ELSE LET rest == Convolve(gray, w, x, y, kernel, k + 1)
             g == gray[(y + KernelOffsets[k][2]) * w + (x + KernelOffsets[k][1]) + 1]
         IN  IF g = NaN \/ rest = NaN THEN NaN
             ELSE IF kernel[k] >= 0
                  THEN <<BigAdd(rest[1], BigMulSmall(g, kernel[k])), rest[2]>>
                  ELSE <<rest[1], BigAdd(rest[2], BigMulSmall(g, -kernel[k]))>>

\* gx * gx for a gradient given as such a pair: the double nearest the
\* square, in units of 2^-112.
GradientSquared(g) ==
    ToDouble(BigMul(BigAbsDiff(g[1], g[2]), BigAbsDiff(g[1], g[2])))

\* magnitude > threshold, with magnitude = Math.sqrt(gx * gx + gy * gy);
\* false when the magnitude is NaN.
MagnitudeExceeds(gx, gy, thr) ==
    /\ gx # NaN
    /\ gy # NaN
    /\ SqrtExceeds(ToDouble(BigAdd(GradientSquared(gx), GradientSquared(gy))), thr)

\* TRUE for the pixels the two loops (1 .. height - 2, 1 .. width - 2) visit.
IsInterior(w, h, x, y) == x >= 1 /\ x <= w - 2 /\ y >= 1 /\ y <= h - 2

\* What a new Uint8ClampedArray holds before it is written: zeros.
UnwrittenByte == 0

\* The byte of channel c (1..4) of a pixel no loop iteration writes.
BorderPixel(c) == UnwrittenByte

\* The pixel written at an interior position: black where the magnitude
\* exceeds the threshold, white elsewhere, both opaque.
EdgePixel(gray, w, x, y, thr, c) ==
    IF c = Channels THEN ByteMax
    ELSE IF MagnitudeExceeds(Convolve(gray, w, x, y, SobelX, 1),
                             Convolve(gray, w, x, y, SobelY, 1), thr)
         THEN 0
         ELSE ByteMax

\* The bytes of edges from pixel p on: every interior pixel of the declared
\* geometry is written where the buffer has room for it.
RECURSIVE EdgesFrom(_, _, _, _, _, _)
EdgesFrom(len, gray, w, h, thr, p) ==
    IF p * Channels >= len THEN <<>>
    ELSE LET n == IF len - p * Channels < Channels THEN len - p * Channels
                  ELSE Channels
             px == IF p < w * h /\ IsInterior(w, h, p % w, p \div w)
                   THEN [c \in 1..Channels |->
                            EdgePixel(gray, w, p % w, p \div w, thr, c)]
                   ELSE [c \in 1..Channels |-> BorderPixel(c)]
         IN  SubSeq(px, 1, n) \o EdgesFrom(len, gray, w, h, thr, p + 1)

\* detectEdgesSobel: a buffer of the input's length.
detectEdgesSobel(data, w, h, thr) ==
    EdgesFrom(Len(data), GrayPlane(data, w * h, 0), w, h, thr, 0)

----------------------------------------------------------------------------
(* Bounds and inputs of the edge specification *)

\* Images of 1..MaxEdgeWidth by 1..MaxEdgeHeight pixels.
MaxEdgeWidth == 4
MaxEdgeHeight == 4

\* The colours the images are made of.
EdgeColors ==
    { <<0, 0, 0, 255>>, <<255, 255, 255, 255>>, <<255, 0, 0, 255>>,
      <<100, 100, 100, 128>> }

\* The thresholds: the five of the detail-level table, and 1.
Thresholds == {1, 20, 30, 45, 70, 100}

\* The image of two colours split at column sx and row sy: c1 in the
\* top-left and bottom-right quadrants, c2 in the other two.  sx = sy = 0
\* gives the uniform image of colour c1.
QuadrantImage(w, h, sx, sy, c1, c2) ==
    [j \in 1..(w * h * Channels) |->
        LET p == (j - 1) \div Channels
            c == ((j - 1) % Channels) + 1
        IN  IF ((p % w) < sx) = ((p \div w) < sy) THEN c1[c] ELSE c2[c]]

\* Pairs of colours whose gray values differ by a threshold up to the
\* rounding of the float32 gray plane.
StripePairs ==
    { << <<200, 0, 0, 255>>, <<205, 5, 5, 255>> >>,
      << <<5, 102, 0, 255>>, <<10, 107, 5, 255>> >>,
      << <<0, 0, 85, 255>>, <<30, 0, 105, 255>> >> }

\* The 3 by 3 image whose columns are c1, black and c2.
StripeImage(c1, c2) ==
    LET row == c1 \o <<0, 0, 0, 255>> \o c2
    IN  row \o row \o row

StripeInputs ==
    { [imageData |-> StripeImage(pr[1], pr[2]), width |-> 3, height |-> 3] :
        pr \in StripePairs }

edgeRest == <<levels, numColors, sampleRate, colors, paletteHexColors,
              expandedPalette, points, epsilon2, simplified,
                 otherVars>>

InitEdges ==
    /\ \/ /\ width \in 1..MaxEdgeWidth
          /\ height \in 1..MaxEdgeHeight
          /\ \E sx \in 0..(width - 1), sy \in 0..(height - 1), c1, c2 \in EdgeColors :
                imageData = QuadrantImage(width, height, sx, sy, c1, c2)
       \/ \E in \in StripeInputs :
             /\ imageData = in.imageData
             /\ width = in.width
             /\ height = in.height
    /\ threshold \in Thresholds
    /\ output = <<>>
    /\ op = "none"
    /\ passes = 0
    /\ thrown = FALSE
    /\ levels = 0
    /\ numColors = 0
    /\ sampleRate = 0
    /\ colors = <<>>
    /\ paletteHexColors = <<>>
    /\ expandedPalette = <<>>
    /\ points = <<>>
    /\ epsilon2 = 0
    /\ simplified = <<>>
    /\ OthersIdle

\* const edges = new Uint8ClampedArray(imageData.length); the gray plane is
\* a new Float32Array.
Edges == NewBuffer

\* A call of detectEdgesSobel(imageData, width, height, threshold).
DetectEdgesSobel ==
    /\ op = "none"
    /\ op' = "detectEdges"
    /\ passes' = 1
    /\ thrown' = FALSE
    /\ output' = detectEdgesSobel(imageData, width, height, threshold)
    /\ imageData' = ArgumentAfter(Edges, imageData, output')
    /\ UNCHANGED <<width, height, threshold>>
    /\ aliased' = FALSE
    /\ UNCHANGED edgeRest

NextEdges == DetectEdgesSobel

SpecEdges == InitEdges /\ [][NextEdges]_vars

----------------------------------------------------------------------------
(* Properties of the edge specification *)

\* TRUE when every pixel of the buffer has the colour of the first.
IsUniform(data) ==
    \A p \in 1..(Len(data) \div Channels) : PixelOf(data, p) = PixelOf(data, 1)

\* C10: for a uniform-colour image of any width and height and a threshold
\* > 0, the output of detectEdges has no edge pixel at any position, an edge
\* pixel being one whose red channel is 0 (the test of thickenLines).
\* (Violated: the border pixels are never written and stay 0, 0, 0, 0.)
C10_UniformNoEdgePixel ==
    (op = "detectEdges" /\ IsUniform(imageData) /\ threshold > 0)
        => \A p \in 1..(Len(output) \div Channels) : PixelOf(output, p)[1] # 0

----------------------------------------------------------------------------
(* RegionTracer: findRegions and floodFillRegion (paintByNumbers.ts) *)

\* A coordinate key `${x},${y}` is the pair <<x, y>>; a Set<string> of keys
\* is a set of pairs.

\* The per-channel tolerance of the flood fill.
Tolerance == 5

\* A plausible slip: twice the tolerance is allowed.
ColorMatchesWider(data, w, x, y, target) ==
    LET idx == (y * w + x) * Channels
    IN  /\ ~(Abs(data[idx + 1] - target.r) > 2 * Tolerance)
        /\ ~(Abs(data[idx + 2] - target.g) > 2 * Tolerance)
        /\ ~(Abs(data[idx + 3] - target.b) > 2 * Tolerance)

\* The colour test of floodFillRegion: no channel of the pixel at (x, y)
\* is further than the tolerance from the target colour.
ColorMatches(data, w, x, y, target) ==
    LET idx == (y * w + x) * Channels
    IN  /\ ~(Abs(data[idx + 1] - target.r) > Tolerance)
        /\ ~(Abs(data[idx + 2] - target.g) > Tolerance)
        /\ ~(Abs(data[idx + 3] - target.b) > Tolerance)

\* The four neighbours pushed on the queue, in the order of the push.
FourNeighbors(x, y) ==
    << <<x + 1, y>>, <<x - 1, y>>, <<x, y + 1>>, <<x, y - 1>> >>

\* The loop of floodFillRegion: the queue is served first in first out; a
\* coordinate that is visited, outside the image or of another colour is
\* skipped, any other is added to the region and to the visited set.
RECURSIVE FloodFill(_, _, _, _, _, _, _)
FloodFill(data, w, h, queue, target, visited, reg) ==
    IF queue = <<>> THEN [region |-> reg, visited |-> visited]
    ELSE LET x == Head(queue)[1]
             y == Head(queue)[2]
         IN  IF <<x, y>> \in visited \/ x < 0 \/ x >= w \/ y < 0 \/ y >= h
             THEN FloodFill(data, w, h, Tail(queue), target, visited, reg)
             ELSE IF ~ColorMatches(data, w, x, y, target)
             THEN FloodFill(data, w, h, Tail(queue), target, visited, reg)
             ELSE FloodFill(data, w, h, Tail(queue) \o FourNeighbors(x, y),
                            target, visited \cup {<<x, y>>},
                            reg \cup {<<x, y>>})

floodFillRegion(data, w, h, x0, y0, target, visited) ==
    FloodFill(data, w, h, << <<x0, y0>> >>, target, visited, {})

\* A plausible slip: '>=' in place of '>', keeping a region of the minimum size.
KeepsRegionAtMinimum(size, minSize) == size >= minSize

\* The noise filter of findRegions.
KeepsRegion(size, minSize) == size > minSize

\* The double loop of findRegions over the pixels p = y * width + x in row
\* order: an unvisited pixel seeds a flood fill, and the region it finds is
\* stored under the next region id when it passes the noise filter.
RECURSIVE FindScan(_, _, _, _, _, _, _)
FindScan(data, w, h, minSize, p, visited, regs) ==
    IF p >= w * h THEN regs
    ELSE LET x == p % w
             y == p \div w
         IN  IF <<x, y>> \in visited
             THEN FindScan(data, w, h, minSize, p + 1, visited, regs)
             ELSE LET fill == floodFillRegion(data, w, h, x, y,
                                  PixelAt(data, p * Channels), visited)
                  IN  FindScan(data, w, h, minSize, p + 1, fill.visited,
                               IF KeepsRegion(Cardinality(fill.region), minSize)
                               THEN Append(regs, fill.region)
                               ELSE regs)

\* The Map the function returns is the sequence of its values: region id i
\* is the (i + 1)-th element.
findRegions(data, w, h, minSize) == FindScan(data, w, h, minSize, 0, {}, <<>>)

\* The images segmented: up to MaxRegionWidth x MaxRegionHeight pixels.
MaxRegionWidth == 4
MaxRegionHeight == 4

\* The colours of the segmented images: red, two reds 4 and 8 below it
\* (the first within the tolerance of red, the second only within that of
\* the first) and blue.
RegionColors ==
    { <<255, 0, 0, 255>>, <<251, 0, 0, 255>>, <<247, 0, 0, 255>>,
      <<0, 0, 255, 255>> }

\* The minimum sizes: around the sizes of the images, and the default 50.
MinRegionSizes == {0, 1, 3, 4, 15, 16, 50}

regionsRest == <<levels, output, numColors, sampleRate, colors,
                 paletteHexColors, expandedPalette, points, epsilon2,
                 simplified, threshold, region, startX, startY, walk,
                 thickness, hexString, parsedRgb, storeVars>>

InitRegions ==
    /\ width \in 1..MaxRegionWidth
    /\ height \in 1..MaxRegionHeight
    /\ \E sx \in 0..(width - 1), sy \in 0..(height - 1), c1, c2 \in RegionColors :
          imageData = QuadrantImage(width, height, sx, sy, c1, c2)
    /\ minRegionSize \in MinRegionSizes
    /\ regions = <<>>
    /\ op = "none"
    /\ passes = 0
    /\ thrown = FALSE
    /\ levels = 0
    /\ output = <<>>
    /\ numColors = 0
    /\ sampleRate = 0
    /\ colors = <<>>
    /\ paletteHexColors = <<>>
    /\ expandedPalette = <<>>
    /\ points = <<>>
    /\ epsilon2 = 0
    /\ simplified = <<>>
    /\ threshold = 0
    /\ region = {}
    /\ startX = 0
    /\ startY = 0
    /\ walk = NoWalk
    /\ thickness = 0
    /\ aliased = FALSE
    /\ hexString = <<>>
    /\ parsedRgb = <<>>
    /\ StoreIdle

\* A call of findRegions(imageData, width, height, minRegionSize).
FindRegions ==
    /\ op = "none"
    /\ op' = "findRegions"
    /\ passes' = 1
    /\ thrown' = FALSE
    /\ regions' = findRegions(imageData, width, height, minRegionSize)
    /\ aliased' = FALSE
    /\ UNCHANGED <<imageData, width, height, minRegionSize>>
    /\ UNCHANGED regionsRest

NextRegions == FindRegions

SpecRegions == InitRegions /\ [][NextRegions]_vars

\* All the pixel coordinates of a w x h image.
AllCoordinates(w, h) == (0..(w - 1)) \X (0..(h - 1))

\* C11: findRegions on a uniform image of w x h pixels returns exactly one
\* region, holding all w * h coordinates, when w * h > minRegionSize, and no
\* region when w * h <= minRegionSize.
C11_UniformOneRegion ==
    (op = "findRegions" /\ IsUniform(imageData))
        => IF width * height > minRegionSize
           THEN /\ Len(regions) = 1
                /\ regions[1] = AllCoordinates(width, height)
           ELSE regions = <<>>

\* The scenario of C11: 4 x 4 uniform red, minimum size 1, one region of
\* size 16.
C11_Witness ==
    /\ op = "findRegions"
    /\ width = 4 /\ height = 4
    /\ minRegionSize = 1
    /\ \A p \in 0..15 : PixelAt(imageData, p * Channels) = [r |-> 255, g |-> 0, b |-> 0, a |-> 255]
    /\ Len(regions) = 1
    /\ Cardinality(regions[1]) = 16

----------------------------------------------------------------------------
(* Further properties of the colour-extraction specification *)

\* C12: extractDominantColors with k >= 1 on a zero-length buffer completes
\* without throwing and returns the seed centroids, an empty list.
\* (Violated: each pass pads the empty seed list to k undefined centroids,
\* and the final map reads c.r of undefined, a TypeError.)
C12_EmptySamplesNoThrow ==
    (op = "extract" /\ Len(imageData) = 0 /\ numColors >= 1)
        => (~thrown /\ colors = <<>>)

\* The sample list as C17 states it: pixels 0, stride, 2 * stride, ...
C17_Samples ==
    LET pixelCount == Len(imageData) \div Channels
        n == (pixelCount + sampleRate - 1) \div sampleRate
    IN  [i \in 1..n |->
            LET o == (i - 1) * sampleRate * Channels
            IN  <<imageData[o + 1], imageData[o + 2], imageData[o + 3]>>]

\* The seeds sample[i * floor(n / k)], i = 0..k-1.
C17_Seeds ==
    LET n == Len(C17_Samples)
    IN  [i \in 1..numColors |-> C17_Samples[(i - 1) * (n \div numColors) + 1]]

C17_Distance2(p, c) ==
    (p[1] - c[1]) * (p[1] - c[1]) + (p[2] - c[2]) * (p[2] - c[2])
        + (p[3] - c[3]) * (p[3] - c[3])

\* The nearest centroid of p: the lowest index among those at the least
\* distance.
C17_Nearest(p, cs) ==
    CHOOSE i \in 1..Len(cs) :
        /\ \A j \in 1..Len(cs) : C17_Distance2(p, cs[i]) <= C17_Distance2(p, cs[j])
        /\ \A j \in 1..(i - 1) : C17_Distance2(p, cs[j]) > C17_Distance2(p, cs[i])

RECURSIVE C17_Sum(_, _, _)
C17_Sum(samples, members, ch) ==
    IF members = {} THEN 0
    ELSE LET s == CHOOSE m \in members : TRUE
         IN  samples[s][ch] + C17_Sum(samples, members \ {s}, ch)

\* The rounded mean of a channel over the members: the integer m with
\* m - 1/2 <= sum / count < m + 1/2.
C17_RoundedMean(samples, members, ch) ==
    LET sum == C17_Sum(samples, members, ch)
        count == Cardinality(members)
    IN  CHOOSE m \in Byte :
            2 * m * count - count <= 2 * sum /\ 2 * sum < 2 * m * count + count

\* The centroid i after a refinement pass from the centroids cs.
C17_Refined(cs, i) ==
    LET members == {s \in 1..Len(C17_Samples) :
                        C17_Nearest(C17_Samples[s], cs) = i}
    IN  IF members = {} THEN cs[i]
        ELSE <<C17_RoundedMean(C17_Samples, members, 1),
               C17_RoundedMean(C17_Samples, members, 2),
               C17_RoundedMean(C17_Samples, members, 3)>>

\* One refinement pass: the refined centroids from index i on.
RECURSIVE C17_PassFrom(_, _)
C17_PassFrom(cs, i) ==
    IF i > Len(cs) THEN <<>>
    ELSE <<C17_Refined(cs, i)>> \o C17_PassFrom(cs, i + 1)

C17_Pass(cs) == C17_PassFrom(cs, 1)

RECURSIVE C17_SeedsFrom(_)
C17_SeedsFrom(i) ==
    IF i > numColors THEN <<>> ELSE <<C17_Seeds[i]>> \o C17_SeedsFrom(i + 1)

C17_ThreePasses ==
    LET first == C17_Pass(C17_SeedsFrom(1))
        second == C17_Pass(first)
    IN  C17_Pass(second)

\* C17: the result of extractDominantColors is the outcome of exactly three
\* refinement passes from the seeds sample[i * floor(n / k)] of the
\* stride-decimated samples: nearest centroid by Euclidean RGB distance with
\* ties to the lowest index, rounded channel means, an empty centroid kept;
\* no fourth pass is run.
C17_ThreePassResult ==
    (op = "extract" /\ ~thrown)
        => /\ Len(colors) = numColors
           /\ \A i \in 1..numColors :
                 <<colors[i].r, colors[i].g, colors[i].b>> = C17_ThreePasses[i]

\* An extraction that a fourth pass would have changed.
C17_Witness ==
    /\ op = "extract"
    /\ ~thrown
    /\ C17_Pass(C17_ThreePasses) # C17_ThreePasses

\* The number of samples: one every sampleRate pixels, from pixel 0.
C18_SampleCount ==
    ((Len(imageData) \div Channels) + sampleRate - 1) \div sampleRate

\* C18: when the sample count n is below the requested colour count k, and
\* n >= 1, extractDominantColors produces fewer than k centroids.
\* (Violated: floor(n / k) = 0, so every one of the k seeds is sample 0, and
\* k colours are returned.)
C18_FewerCentroids ==
    (op = "extract" /\ C18_SampleCount >= 1 /\ C18_SampleCount < numColors)
        => (~thrown /\ Len(colors) < numColors)

----------------------------------------------------------------------------
(* GuideGenerator: thickenLines and the two guides (paintByNumbers.ts) *)

\* A plausible slip: half the thickness rounded up.
RadiusRoundedUp(t) == (t + 1) \div 2

\* The side of the dilation square is 2 * radius + 1.
Radius(t) == t \div 2

\* edges[idx] === 0 for the pixel (x, y).
IsEdgeSource(edges, w, x, y) == ByteAt(edges, (y * w + x) * Channels) = 0

\* TRUE when the dilation of some edge pixel blackens the pixel (nx, ny).
Blackened(edges, w, h, t, nx, ny) ==
    \E x \in 0..(w - 1), y \in 0..(h - 1) :
        /\ IsEdgeSource(edges, w, x, y)
        /\ Abs(nx - x) <= Radius(t)
        /\ Abs(ny - y) <= Radius(t)

\* new Uint8ClampedArray(edges.length).
ThickenedLength(edges, w, h) == Len(edges)

\* thickenLines returns its argument itself when thickness <= 1.
ReturnsEdges(t) == t <= 1

\* The bytes of the buffer thickenLines returns: those of its argument when
\* thickness <= 1, else white with a black opaque square around every edge
\* pixel, clipped to the image; a write past the end is dropped.
thickenLines(edges, w, h, t) ==
    IF ReturnsEdges(t) THEN edges
    ELSE [j \in 1..ThickenedLength(edges, w, h) |->
            LET p == (j - 1) \div Channels
            IN  IF IsAlphaIndex(j) THEN ByteMax
                ELSE IF p < w * h /\ Blackened(edges, w, h, t, p % w, p \div w)
                     THEN 0
                     ELSE ByteMax]

\* The detail-level table of generatePaintByNumbersLines.
LinesThreshold(lv) ==
    IF lv <= 2 THEN 100 ELSE IF lv <= 4 THEN 70 ELSE IF lv <= 6 THEN 45
    ELSE IF lv <= 8 THEN 30 ELSE 20

LinesThickness(lv) ==
    IF lv <= 2 THEN 4 ELSE IF lv <= 4 THEN 3 ELSE IF lv <= 6 THEN 2
    ELSE IF lv <= 8 THEN 2 ELSE 1

generatePaintByNumbersLines(data, w, h, lv) ==
    thickenLines(detectEdgesSobel(data, w, h, LinesThreshold(lv)), w, h,
                 LinesThickness(lv))

\* r !== r2 || g !== g2 || b !== b2 for the pixels at byte offsets i and i2.
RgbDiffers(data, i, i2) ==
    \/ ByteAt(data, i) # ByteAt(data, i2)
    \/ ByteAt(data, i + 1) # ByteAt(data, i2 + 1)
    \/ ByteAt(data, i + 2) # ByteAt(data, i2 + 2)

\* isEdge of the blocks guide: the right or the bottom neighbour differs.
IsBlockEdge(data, w, h, x, y) ==
    \/ (x < w - 1 /\ RgbDiffers(data, (y * w + x) * Channels,
                                (y * w + x + 1) * Channels))
    \/ (y < h - 1 /\ RgbDiffers(data, (y * w + x) * Channels,
                                ((y + 1) * w + x) * Channels))

\* A plausible slip: the product truncated.
DarkenTruncated(v) == (17 * v) \div 20

\* Math.max(0, Math.round(v * 0.85)): 0.85 v = 17 v / 20, halves round up
\* (the double product rounds the same for every byte v).
Darken(v) == (17 * v + 10) \div 20

\* The blocks guide: a copy of the input with the colour channels of every
\* edge pixel darkened.
generatePaintByNumbersBlocks(data, w, h) ==
    [j \in 1..Len(data) |->
        LET p == (j - 1) \div Channels
        IN  IF ~IsAlphaIndex(j) /\ p < w * h /\ IsBlockEdge(data, w, h, p % w, p \div w)
            THEN Darken(data[j])
            ELSE data[j]]

----------------------------------------------------------------------------
(* Bounds, inputs and actions of the guide specification *)

\* Images of 1..MaxGuideWidth by 1..MaxGuideHeight pixels.
MaxGuideWidth == 3
MaxGuideHeight == 3

\* Detail levels 1..MaxDetail (the table distinguishes levels up to 9).
MaxDetail == 10

\* Line thicknesses 0..MaxThickness.
MaxThickness == 4

\* The colours of the guide images: black, white, and a translucent colour
\* whose red channel is 0.
GuideColors == { <<0, 0, 0, 255>>, <<255, 255, 255, 255>>, <<0, 200, 10, 128>> }

\* The two-colour images, and the buffers of invalid geometry.
GuideInputs ==
    { [imageData |-> QuadrantImage(w, h, sx, sy, c1, c2), width |-> w, height |-> h] :
        w \in 1..MaxGuideWidth, h \in 1..MaxGuideHeight,
        sx \in 0..(MaxGuideWidth - 1), sy \in 0..(MaxGuideHeight - 1),
        c1 \in GuideColors, c2 \in GuideColors }
        \cup StripeInputs \cup MalformedInputs

\* const thickened = new Uint8ClampedArray(edges.length).
Thickened == NewBuffer

\* The bytes of the buffer passed to thickenLines after the call: with
\* thickness <= 1 the function returns before any store.
ThickenArgumentAfter(edges, w, h, t) ==
    IF ReturnsEdges(t) THEN edges
    ELSE ArgumentAfter(Thickened, edges, thickenLines(edges, w, h, t))

\* The bytes of the buffer passed to generatePaintByNumbersLines after the
\* call: detectEdgesSobel is given that buffer, thickenLines the buffer
\* detectEdgesSobel returned.
LinesArgumentAfter(data, w, h, lv) ==
    ArgumentAfter(Edges, data,
                  ThickenArgumentAfter(detectEdgesSobel(data, w, h, LinesThreshold(lv)),
                                       w, h, LinesThickness(lv)))

\* const output = new Uint8ClampedArray(posterizedData.length), filled by
\* output.set(posterizedData).
BlocksOutput == NewBuffer

guideRest == <<numColors, sampleRate, colors, paletteHexColors,
               expandedPalette, points, epsilon2, simplified, tracerVars,
               hexString, parsedRgb, storeVars>>

InitGuide ==
    /\ \E in \in GuideInputs :
          /\ imageData = in.imageData
          /\ width = in.width
          /\ height = in.height
    /\ levels \in 1..MaxDetail
    /\ thickness = 0
    /\ threshold = LinesThreshold(levels)
    /\ output = <<>>
    /\ aliased = FALSE
    /\ op = "none"
    /\ passes = 0
    /\ thrown = FALSE
    /\ numColors = 0
    /\ sampleRate = 0
    /\ colors = <<>>
    /\ paletteHexColors = <<>>
    /\ expandedPalette = <<>>
    /\ points = <<>>
    /\ epsilon2 = 0
    /\ simplified = <<>>
    /\ minRegionSize = 0
    /\ regions = <<>>
    /\ region = {}
    /\ startX = 0
    /\ startY = 0
    /\ walk = NoWalk
    /\ hexString = <<>>
    /\ parsedRgb = <<>>
    /\ StoreIdle

\* A call of thickenLines(imageData, width, height, t), t kept in thickness:
\* the buffer returned is the argument itself when t <= 1.
ThickenLines ==
    /\ op = "none"
    /\ op' = "thickenLines"
    /\ passes' = 1
    /\ thrown' = FALSE
    /\ \E t \in 0..MaxThickness :
          /\ thickness' = t
          /\ output' = thickenLines(imageData, width, height, t)
          /\ imageData' = ThickenArgumentAfter(imageData, width, height, t)
          /\ aliased' = ReturnsEdges(t)
    /\ UNCHANGED <<width, height, levels, threshold>>
    /\ UNCHANGED guideRest

\* A call of generatePaintByNumbersLines(imageData, width, height, levels):
\* thickenLines is given the buffer detectEdgesSobel allocated, so what it
\* returns is never the caller's buffer.
GeneratePaintByNumbersLines ==
    /\ op = "none"
    /\ op' = "lines"
    /\ passes' = 1
    /\ thrown' = FALSE
    /\ output' = generatePaintByNumbersLines(imageData, width, height, levels)
    /\ imageData' = LinesArgumentAfter(imageData, width, height, levels)
    /\ aliased' = FALSE
    /\ UNCHANGED <<width, height, levels, thickness, threshold>>
    /\ UNCHANGED guideRest

\* A call of generatePaintByNumbersBlocks(imageData, width, height).
GeneratePaintByNumbersBlocks ==
    /\ op = "none"
    /\ op' = "blocks"
    /\ passes' = 1
    /\ thrown' = FALSE
    /\ output' = generatePaintByNumbersBlocks(imageData, width, height)
    /\ imageData' = ArgumentAfter(BlocksOutput, imageData, output')
    /\ aliased' = FALSE
    /\ UNCHANGED <<width, height, levels, thickness, threshold>>
    /\ UNCHANGED guideRest

NextGuide ==
    \/ ThickenLines
    \/ GeneratePaintByNumbersLines
    \/ GeneratePaintByNumbersBlocks
    \/ QuantizeImage
    \/ PosterizeImage
    \/ DetectEdgesSobel

SpecGuide == InitGuide /\ [][NextGuide]_vars

\* C13: for every engine transform and every parameter value the returned
\* buffer is a freshly allocated object, never the input buffer itself.
\* (Violated: thickenLines returns its argument when thickness <= 1.)
C13_OutputNeverAliasesInput ==
    op \in {"quantize", "posterize", "detectEdges", "thickenLines", "lines",
            "blocks"}
        => ~aliased

----------------------------------------------------------------------------
(* The engine specification: the six exported operations on one buffer *)

\* The colours of the engine images.
EngineColors == { <<200, 100, 50, 255>>, <<10, 20, 30, 128>> }

\* Buffers of whole pixels: the empty one, two-colour images of 1 by 1 and
\* 2 by 2 pixels, the striped 3 by 3 images, and buffers longer or shorter
\* than their declared geometry.
EngineInputs ==
    { [imageData |-> <<>>, width |-> 0, height |-> 0],
      [imageData |-> <<200, 100, 50, 255>>, width |-> 2, height |-> 1],
      [imageData |-> <<200, 100, 50, 255, 10, 20, 30, 128>>, width |-> 1, height |-> 1] }
        \cup { [imageData |-> QuadrantImage(w, w, 1, 1, c1, c2), width |-> w, height |-> w] :
                 w \in 1..2, c1 \in EngineColors, c2 \in EngineColors }
        \cup StripeInputs

\* The detail levels: one for each line thickness of the table.
EngineLevels == {1, 3, 5, 9}

\* The palettes given to the remapping: none, and black and white.
EnginePalettes == { <<>>, BlackAndWhite }

InitEngine ==
    /\ \E in \in EngineInputs :
          /\ imageData = in.imageData
          /\ width = in.width
          /\ height = in.height
    /\ levels \in EngineLevels
    /\ numColors \in 1..MaxColors
    /\ sampleRate \in 1..MaxStride
    /\ paletteHexColors \in EnginePalettes
    /\ thickness = 0
    /\ threshold = LinesThreshold(levels)
    /\ output = <<>>
    /\ aliased = FALSE
    /\ op = "none"
    /\ passes = 0
    /\ thrown = FALSE
    /\ colors = <<>>
    /\ expandedPalette = <<>>
    /\ points = <<>>
    /\ epsilon2 = 0
    /\ simplified = <<>>
    /\ minRegionSize = 0
    /\ regions = <<>>
    /\ region = {}
    /\ startX = 0
    /\ startY = 0
    /\ walk = NoWalk
    /\ hexString = <<>>
    /\ parsedRgb = <<>>
    /\ StoreIdle

NextEngine ==
    \/ ExtractDominantColors
    \/ QuantizeImage
    \/ PosterizeImage
    \/ RemapImageToPalette
    \/ GeneratePaintByNumbersLines
    \/ GeneratePaintByNumbersBlocks

SpecEngine == InitEngine /\ [][NextEngine]_vars

\* C14: every exported engine operation (extractDominantColors, quantize,
\* posterize, remapToPalette, lines guide, blocks guide) leaves every byte
\* of its input buffer unchanged, and every operation that returns a buffer
\* returns one of exactly the input's length.
C14_InputKeptSameLength ==
    [][/\ imageData' = imageData
       /\ (op' \in {"quantize", "posterize", "remap", "lines", "blocks"} /\ ~thrown')
             => Len(output') = Len(imageData)]_vars

\* A remapping that returned a buffer differing from its input, for an
\* input longer than its declared geometry.
C14_Witness ==
    /\ op = "remap"
    /\ ~thrown
    /\ Len(imageData) > width * height * Channels
    /\ Len(output) = Len(imageData)
    /\ output # imageData

----------------------------------------------------------------------------
(* The hex-parsing specification: hexToRgb on its own *)

\* Strings of 0..MaxHexLength characters after the optional '#'.
MaxHexLength == 6

\* The characters of the strings: a digit, a lower-case and an upper-case
\* hexadecimal letter, and a letter that is no hexadecimal digit.
HexChars == {"0", "c", "F", "g"}

HexStrings ==
    UNION { [1..n -> HexChars] : n \in 0..MaxHexLength }

hexRest == <<imageData, width, height, levels, output, numColors, sampleRate,
             colors, paletteHexColors, expandedPalette, points, epsilon2,
             simplified, threshold, tracerVars, thickness, storeVars>>

InitHex ==
    /\ \E body \in HexStrings : hexString \in {body, <<"#">> \o body}
    /\ parsedRgb = <<>>
    /\ op = "none"
    /\ passes = 0
    /\ thrown = FALSE
    /\ aliased = FALSE
    /\ imageData = <<>>
    /\ width = 0
    /\ height = 0
    /\ levels = 0
    /\ output = <<>>
    /\ numColors = 0
    /\ sampleRate = 0
    /\ colors = <<>>
    /\ paletteHexColors = <<>>
    /\ expandedPalette = <<>>
    /\ points = <<>>
    /\ epsilon2 = 0
    /\ simplified = <<>>
    /\ threshold = 0
    /\ minRegionSize = 0
    /\ regions = <<>>
    /\ region = {}
    /\ startX = 0
    /\ startY = 0
    /\ walk = NoWalk
    /\ thickness = 0
    /\ StoreIdle

\* A call of hexToRgb(hexString).  The function has no throw statement and
\* exec accepts any string.
HexToRgb ==
    /\ op = "none"
    /\ op' = "hexToRgb"
    /\ passes' = 1
    /\ thrown' = FALSE
    /\ parsedRgb' = hexToRgb(hexString)
    /\ UNCHANGED <<hexString, aliased>>
    /\ UNCHANGED hexRest

NextHex == HexToRgb

SpecHex == InitHex /\ [][NextHex]_vars

\* String.prototype.toLowerCase on one character of a hex string.
C15_ToLowerCase(c) ==
    CASE c = "A" -> "a" [] c = "B" -> "b" [] c = "C" -> "c"
      [] c = "D" -> "d" [] c = "E" -> "e" [] c = "F" -> "f"
      [] OTHER -> c

\* The form #RRGGBB, either case: '#' and six hexadecimal digits.
C15_IsHashRRGGBB(s) ==
    /\ Len(s) = 7
    /\ s[1] = "#"
    /\ \A i \in 2..7 : \E k \in 1..16 : HexDigitsUpper[k] = ToUpperCase(s[i])

\* C15: hex parsing accepts #RRGGBB case-insensitively (a string and its
\* upper- or lower-cased form parse to the same r, g, b) and maps every
\* string that is not of that form to black (0, 0, 0) without an error.
\* (Violated: the '#' is optional in the pattern, so six hexadecimal digits
\* without it are parsed, not mapped to black.)
C15_CaseInsensitiveElseBlack ==
    op = "hexToRgb"
        => /\ ~thrown
           /\ parsedRgb = hexToRgb([i \in 1..Len(hexString) |-> ToUpperCase(hexString[i])])
           /\ parsedRgb = hexToRgb([i \in 1..Len(hexString) |-> C15_ToLowerCase(hexString[i])])
           /\ (~C15_IsHashRRGGBB(hexString) => parsedRgb = <<0, 0, 0>>)

----------------------------------------------------------------------------
(* Palette mapping: findClosestPaletteColor (palettes.ts) and
   mapColorsToPalette (imageProcessing.ts) *)

\* The loop of findClosestPaletteColor from palette index i (0-based) on:
\* minDistance2 = -1 stands for Infinity; a strictly smaller distance
\* replaces the closest string so far, which is returned as it was written.
RECURSIVE ClosestPaletteScan(_, _, _, _, _, _, _)
ClosestPaletteScan(r, g, b, palette, i, minDistance2, closest) ==
    IF i >= Len(palette) THEN closest
    ELSE LET p == hexToRgb(palette[i + 1])
             distance2 == (r - p[1]) * (r - p[1]) + (g - p[2]) * (g - p[2])
                            + (b - p[3]) * (b - p[3])
         IN  IF minDistance2 = -1 \/ distance2 < minDistance2
             THEN ClosestPaletteScan(r, g, b, palette, i + 1, distance2,
                                     palette[i + 1])
             ELSE ClosestPaletteScan(r, g, b, palette, i + 1, minDistance2,
                                     closest)

\* findClosestPaletteColor: closest starts as palette[0], undefined for an
\* empty palette.
findClosestPaletteColor(r, g, b, palette) ==
    ClosestPaletteScan(r, g, b, palette, 0, -1,
                       IF Len(palette) > 0 THEN palette[1] ELSE Undefined)

\* mapColorsToPalette: every colour keeps r, g, b and gets the hex string of
\* the closest palette colour.
mapColorsToPalette(cs, palette) ==
    [i \in 1..Len(cs) |->
        [r |-> cs[i].r, g |-> cs[i].g, b |-> cs[i].b,
         hex |-> findClosestPaletteColor(cs[i].r, cs[i].g, cs[i].b, palette)]]

\* Colour lists of 0..MaxMapped colours.
MaxMapped == 2

\* The colours mapped, as extractDominantColors returns them.
MapTriples == { <<0, 0, 0>>, <<255, 128, 64>>, <<200, 30, 60>>, <<130, 130, 130>> }

MapClusters ==
    { [r |-> t[1], g |-> t[2], b |-> t[3], hex |-> rgbToHex(t[1], t[2], t[3])] :
        t \in MapTriples }

mapRest == <<imageData, width, height, levels, output, numColors, sampleRate,
             expandedPalette, points, epsilon2, simplified, threshold,
             otherVars>>

InitMap ==
    /\ \E n \in 0..MaxMapped : colors \in [1..n -> MapClusters]
    /\ \E n \in 0..MaxBase : paletteHexColors \in [1..n -> PaletteHexes]
    /\ op = "none"
    /\ passes = 0
    /\ thrown = FALSE
    /\ imageData = <<>>
    /\ width = 0
    /\ height = 0
    /\ levels = 0
    /\ output = <<>>
    /\ numColors = 0
    /\ sampleRate = 0
    /\ expandedPalette = <<>>
    /\ points = <<>>
    /\ epsilon2 = 0
    /\ simplified = <<>>
    /\ threshold = 0
    /\ OthersIdle

\* The caller's colors = mapColorsToPalette(colors, paletteHexColors).
MapColorsToPalette ==
    /\ op = "none"
    /\ op' = "map"
    /\ passes' = 1
    /\ thrown' = FALSE
    /\ colors' = mapColorsToPalette(colors, paletteHexColors)
    /\ aliased' = FALSE
    /\ UNCHANGED paletteHexColors
    /\ UNCHANGED mapRest

NextMap == MapColorsToPalette

SpecMap == InitMap /\ [][NextMap]_vars

\* An upper-case #RRGGBB string.
C16_IsUpperHex(s) ==
    /\ DOMAIN s = 1..7
    /\ s[1] = "#"
    /\ \A i \in 2..7 : \E k \in 1..16 : HexDigitsUpper[k] = s[i]

\* C16: every hex string the engine emits is upper-case #RRGGBB: each colour
\* of extractDominantColors and each colour of mapColorsToPalette, for every
\* palette list, palettes written in lower case included.
\* (Violated: mapColorsToPalette emits the palette's string as written.)
C16_EmitsUpperHex ==
    op = "map" => \A i \in 1..Len(colors) : C16_IsUpperHex(colors[i].hex)

----------------------------------------------------------------------------
(* Further properties of the palette specification *)

\* The luminosity 0.299 r + 0.587 g + 0.114 b of C19 as the number the
\* engine holds, a double, in units of 2^-56.
C19_Luminosity(r, g, b) ==
    ToDouble(BigAdd(ToDouble(BigAdd(ToDouble(BigMulSmall(Weight299, r)),
                                    ToDouble(BigMulSmall(Weight587, g)))),
                    ToDouble(BigMulSmall(Weight114, b))))

\* The luminosities of the candidates from candidate i on.
RECURSIVE C19_Luminosities(_, _)
C19_Luminosities(cands, i) ==
    IF i > Len(cands) THEN <<>>
    ELSE <<C19_Luminosity(cands[i].r, cands[i].g, cands[i].b)>>
            \o C19_Luminosities(cands, i + 1)

\* The scores of C19 for a pixel of luminosity pl against the candidates from
\* candidate i on: 1.5 |luminosity difference| + 0.15 (Euclidean RGB
\* distance), as doubles in units of 2^-107.
RECURSIVE C19_Scores(_, _, _, _, _)
C19_Scores(px, pl, cands, lums, i) ==
    IF i > Len(cands) THEN <<>>
    ELSE <<ToDouble(BigAdd(
               BigShiftLeft(ToDouble(BigMulSmall(
                                ToDouble(BigAbsDiff(pl, lums[i])), 3)), 50),
               ToDouble(BigMul(Sqrt((px[1] - cands[i].r) * (px[1] - cands[i].r)
                                       + (px[2] - cands[i].g) * (px[2] - cands[i].g)
                                       + (px[3] - cands[i].b) * (px[3] - cands[i].b)),
                               Weight015))))>>
            \o C19_Scores(px, pl, cands, lums, i + 1)

\* The candidate of minimal score; among equal scores the first in
\* ascending-luminosity order, generation order deciding among equal
\* luminosities.
C19_Winner(px, cands, lums) ==
    LET scores == C19_Scores(px, C19_Luminosity(px[1], px[2], px[3]), cands, lums, 1)
    IN  CHOOSE i \in 1..Len(cands) :
            \A j \in (1..Len(cands)) \ {i} :
                \/ BigCmp(scores[i], scores[j]) < 0
                \/ /\ scores[i] = scores[j]
                   /\ \/ BigCmp(lums[i], lums[j]) < 0
                      \/ (lums[i] = lums[j] /\ i < j)

\* C19: for every pixel and every non-empty base palette, remapToPalette
\* writes the RGB of the expanded-palette candidate of minimal score
\* 1.5 |luminosity difference| + 0.15 (Euclidean RGB distance), the first in
\* ascending-luminosity order (generation order among equal luminosities)
\* among equal scores, and copies the pixel's alpha.
C19_MinimalScoreWins ==
    (op = "remap" /\ Len(paletteHexColors) >= 1)
        => /\ ~thrown
           /\ Len(output) = Len(imageData)
           /\ LET cands == generateMixedPalette(paletteHexColors)
                  lums == C19_Luminosities(cands, 1)
              IN  \A p \in 1..(Len(imageData) \div Channels) :
                     LET px == PixelOf(imageData, p)
                         w == cands[C19_Winner(px, cands, lums)]
                     IN  PixelOf(output, p) = <<w.r, w.g, w.b, px[4]>>

\* A transparent pixel that is no candidate, remapped against two base
\* colours of which one is neither black nor white.
C19_Witness ==
    /\ op = "remap"
    /\ passes = 1
    /\ imageData = <<200, 100, 50, 0>>
    /\ paletteHexColors = << HexWhite, <<"C", "8", "1", "E", "3", "C">> >>
    /\ output[4] = 0
    /\ SubSeq(output, 1, 3) # <<200, 100, 50>>

----------------------------------------------------------------------------
(* RegionTracer: traceContour (paintByNumbers.ts) *)

\* The eight directions, from "right" counter-clockwise on the screen
\* (y grows downward): index d + 1 holds direction d.
Directions ==
    << <<1, 0>>, <<1, -1>>, <<0, -1>>, <<-1, -1>>,
       <<-1, 0>>, <<-1, 1>>, <<0, 1>>, <<1, 1>> >>

\* isBoundary: some 8-neighbour of (nx, ny) is outside the image or outside
\* the region.
IsBoundary(reg, w, h, nx, ny) ==
    \E k \in 1..8 :
        LET bx == nx + Directions[k][1]
            by == ny + Directions[k][2]
        IN  bx < 0 \/ bx >= w \/ by < 0 \/ by >= h \/ <<bx, by>> \notin reg

\* A plausible slip: the neighbour is not tested for being a boundary pixel.
QualifiesInRegion(reg, w, h, x, y, d) ==
    <<x + Directions[d + 1][1], y + Directions[d + 1][2]>> \in reg

\* TRUE when the neighbour of (x, y) in direction d qualifies as the next
\* boundary pixel.
Qualifies(reg, w, h, x, y, d) ==
    /\ <<x + Directions[d + 1][1], y + Directions[d + 1][2]>> \in reg
    /\ IsBoundary(reg, w, h, x + Directions[d + 1][1], y + Directions[d + 1][2])

\* The steps i of the inner loop (checkDir = (direction + i) % 8) that find
\* a qualifying neighbour; the loop takes the least.
FoundSteps(reg, w, h, x, y, direction) ==
    {i \in 0..7 : Qualifies(reg, w, h, x, y, (direction + i) % 8)}

Min(a, b) == IF a < b THEN a ELSE b

\* The limit of 10000 iterations.
IterationCap == 10000

\* maxIterations.
MaxIterations(reg) == Min(Cardinality(reg) * 2, IterationCap)

\* A plausible slip: the loop condition without the test of the length.
ContinuesWithoutLength(reg, x0, y0, x, y, iterations, contourLength) ==
    /\ <<x, y>> # <<x0, y0>>
    /\ iterations < MaxIterations(reg)

\* The condition of the do-while loop.
Continues(reg, x0, y0, x, y, iterations, contourLength) ==
    /\ <<x, y>> # <<x0, y0>>
    /\ iterations < MaxIterations(reg)
    /\ contourLength < Cardinality(reg)

\* The do-while loop from the state (x, y, direction, iterations, contour):
\* the position is pushed, then the walk either breaks with nothing found or
\* moves to the first qualifying neighbour and tests the loop condition.  The
\* result is the state in which the loop ended.
RECURSIVE Walk(_, _, _, _, _, _, _, _, _, _)
Walk(reg, w, h, x0, y0, x, y, direction, iterations, contour) ==
    LET pushed == Append(contour, <<x, y>>)
        steps == FoundSteps(reg, w, h, x, y, direction)
    IN  IF steps = {}
        THEN [x |-> x, y |-> y, direction |-> direction,
              iterations |-> iterations, contour |-> pushed, found |-> FALSE]
        ELSE LET i == CHOOSE s \in steps : \A t \in steps : s <= t
                 checkDir == (direction + i) % 8
                 nx == x + Directions[checkDir + 1][1]
                 ny == y + Directions[checkDir + 1][2]
             IN  IF Continues(reg, x0, y0, nx, ny, iterations + 1, Len(pushed))
                 THEN Walk(reg, w, h, x0, y0, nx, ny, checkDir,
                           iterations + 1, pushed)
                 ELSE [x |-> nx, y |-> ny, direction |-> checkDir,
                       iterations |-> iterations + 1, contour |-> pushed,
                       found |-> TRUE]

\* Regions below this size are not traced.
MinTraced == 3

\* Twice the epsilon 2.5 of the final simplification.
TraceEpsilon2 == 5

\* The walk of traceContour when its loop ended; NoWalk for a region of
\* fewer than 3 pixels, which returns before the loop.
TraceWalk(reg, w, h, x0, y0) ==
    IF Cardinality(reg) < MinTraced THEN NoWalk
    ELSE Walk(reg, w, h, x0, y0, x0, y0, 0, 0, <<>>)

\* traceContour: the simplified contour when more than 3 points were traced,
\* else the empty list.
traceContour(reg, w, h, x0, y0) ==
    LET contour == TraceWalk(reg, w, h, x0, y0).contour
    IN  IF Len(contour) > 3 THEN simplifyContour(contour, TraceEpsilon2)
        ELSE <<>>

----------------------------------------------------------------------------
(* Bounds, inputs and actions of the tracing specification *)

\* Images of 1..MaxTraceWidth by 1..MaxTraceHeight pixels.
MaxTraceWidth == 3
MaxTraceHeight == 3

\* The pixels of reg reached from the pixels of seen through 4-neighbours
\* in reg: what a flood fill from seen collects.
RECURSIVE Grow(_, _)
Grow(reg, seen) ==
    LET next == {c \in reg \ seen :
                    \E s \in seen : Abs(c[1] - s[1]) + Abs(c[2] - s[2]) = 1}
    IN  IF next = {} THEN seen ELSE Grow(reg, seen \cup next)

\* The regions findRegions can produce: non-empty and 4-connected.
IsFloodRegion(reg) ==
    reg # {} /\ Grow(reg, {CHOOSE c \in reg : TRUE}) = reg

traceRest == <<imageData, levels, output, numColors, sampleRate, colors,
               paletteHexColors, expandedPalette, points, epsilon2, threshold,
               minRegionSize, regions, thickness, hexString, parsedRgb,
               storeVars>>

InitTrace ==
    /\ width \in 1..MaxTraceWidth
    /\ height \in 1..MaxTraceHeight
    /\ region \in {reg \in SUBSET AllCoordinates(width, height) : IsFloodRegion(reg)}
    /\ \E start \in region : startX = start[1] /\ startY = start[2]
    /\ walk = NoWalk
    /\ simplified = <<>>
    /\ op = "none"
    /\ passes = 0
    /\ thrown = FALSE
    /\ aliased = FALSE
    /\ imageData = <<>>
    /\ levels = 0
    /\ output = <<>>
    /\ numColors = 0
    /\ sampleRate = 0
    /\ colors = <<>>
    /\ paletteHexColors = <<>>
    /\ expandedPalette = <<>>
    /\ points = <<>>
    /\ epsilon2 = 0
    /\ threshold = 0
    /\ minRegionSize = 0
    /\ regions = <<>>
    /\ thickness = 0
    /\ hexString = <<>>
    /\ parsedRgb = <<>>
    /\ StoreIdle

\* A call of traceContour(region, width, height, startX, startY): the state
\* of the walk when its loop ended, and the list returned.
TraceContour ==
    /\ op = "none"
    /\ op' = "traceContour"
    /\ passes' = 1
    /\ thrown' = FALSE
    /\ walk' = TraceWalk(region, width, height, startX, startY)
    /\ simplified' = traceContour(region, width, height, startX, startY)
    /\ UNCHANGED <<region, width, height, startX, startY, aliased>>
    /\ UNCHANGED traceRest

NextTrace == TraceContour

SpecTrace == InitTrace /\ [][NextTrace]_vars

\* C20: the boundary walk of traceContour stops only because the position
\* has returned to the start pixel, or the step count has reached
\* min(2 * regionSize, 10000), or no neighbour qualifies as the next
\* boundary pixel.
\* (Violated: the loop also ends when the contour holds regionSize points.)
C20_StopsForThreeReasons ==
    (op = "traceContour" /\ Cardinality(region) >= 3)
        => \/ <<walk.x, walk.y>> = <<startX, startY>>
           \/ walk.iterations >= Min(2 * Cardinality(region), 10000)
           \/ ~walk.found

----------------------------------------------------------------------------
(* Further properties of the tracing specification *)

\* The scan order of C21: right, up-right, up, up-left, left, down-left,
\* down, down-right, as steps (dx, dy) with y growing downward.
C21_ScanOrder ==
    << <<1, 0>>, <<1, -1>>, <<0, -1>>, <<-1, -1>>,
       <<-1, 0>>, <<-1, 1>>, <<0, 1>>, <<1, 1>> >>

\* The walked path: the points pushed, and the position reached by the last
\* step when one was taken.
C21_Path ==
    IF walk.found THEN Append(walk.contour, <<walk.x, walk.y>>)
    ELSE walk.contour

\* TRUE when c belongs to the region and has an 8-neighbour outside the
\* region or outside the image.
C21_IsBoundaryPixel(c) ==
    /\ c \in region
    /\ \E dx, dy \in {-1, 0, 1} :
          /\ <<dx, dy>> # <<0, 0>>
          /\ \/ <<c[1] + dx, c[2] + dy>> \notin region
             \/ c[1] + dx < 0 \/ c[1] + dx >= width
             \/ c[2] + dy < 0 \/ c[2] + dy >= height

\* The scan position (0..7) of the step from a to b, or 8 when b is no
\* 8-neighbour of a.
C21_StepIndex(a, b) ==
    IF \E k \in 1..8 : C21_ScanOrder[k] = <<b[1] - a[1], b[2] - a[2]>>
    THEN (CHOOSE k \in 1..8 : C21_ScanOrder[k] = <<b[1] - a[1], b[2] - a[2]>>) - 1
    ELSE 8

\* The facing direction at the k-th point of the path: right at the start,
\* afterwards the direction of the step that led there.
C21_Facing(k) ==
    IF k = 1 THEN 0 ELSE C21_StepIndex(C21_Path[k - 1], C21_Path[k])

\* C21: the walked path starts at (startX, startY), and every later point is
\* the first of the 8 neighbours of its predecessor, scanned cyclically from
\* the facing direction in the order right, up-right, up, up-left, left,
\* down-left, down, down-right, that belongs to the region and has an
\* 8-neighbour outside the region or the image; the facing direction becomes
\* the direction of that step.
C21_FirstBoundaryNeighbour ==
    (op = "traceContour" /\ Cardinality(region) >= 3)
        => /\ C21_Path[1] = <<startX, startY>>
           /\ \A k \in 1..(Len(C21_Path) - 1) :
                 LET s == C21_StepIndex(C21_Path[k], C21_Path[k + 1])
                     offset == (s - C21_Facing(k) + 8) % 8
                 IN  /\ s < 8
                     /\ C21_IsBoundaryPixel(C21_Path[k + 1])
                     /\ \A j \in 0..(offset - 1) :
                           LET d == C21_ScanOrder[((C21_Facing(k) + j) % 8) + 1]
                           IN  ~C21_IsBoundaryPixel(<<C21_Path[k][1] + d[1],
                                                      C21_Path[k][2] + d[2]>>)
           /\ walk.found
                 => walk.direction = C21_Facing(Len(C21_Path))

\* A walk on the full 3 x 3 square from (0, 1): the neighbour to the right,
\* the centre, is in the region but no boundary pixel, and is passed over.
C21_Witness ==
    /\ op = "traceContour"
    /\ width = 3 /\ height = 3
    /\ Cardinality(region) = 9
    /\ startX = 0 /\ startY = 1
    /\ Len(walk.contour) >= 3
    /\ walk.contour[2] # <<1, 1>>

----------------------------------------------------------------------------
(* Further properties of the contour specification *)

\* TRUE when the point p is within epsilon (eps2 / 2) of the chord from a to
\* b: of the line through a and b, or of the point a when b = a.
C22_WithinEpsilon(p, a, b, eps2) ==
    LET den2 == (b[1] - a[1]) * (b[1] - a[1]) + (b[2] - a[2]) * (b[2] - a[2])
        cross == (b[2] - a[2]) * (p[1] - a[1]) - (b[1] - a[1]) * (p[2] - a[2])
    IN  IF den2 = 0
        THEN 4 * ((p[1] - a[1]) * (p[1] - a[1]) + (p[2] - a[2]) * (p[2] - a[2]))
                <= eps2 * eps2
        ELSE 4 * cross * cross <= eps2 * eps2 * den2

\* TRUE when kept, the positions in the input of the points retained, makes
\* the output and leaves every dropped point within epsilon of the chord of
\* the two retained points around it.
C22_Explains(kept) ==
    /\ kept[1] = 1
    /\ kept[Len(simplified)] = Len(points)
    /\ \A j \in 1..Len(simplified) : points[kept[j]] = simplified[j]
    /\ \A j \in 1..(Len(simplified) - 1) :
          /\ kept[j] < kept[j + 1]
          /\ \A i \in (kept[j] + 1)..(kept[j + 1] - 1) :
                C22_WithinEpsilon(points[i], points[kept[j]], points[kept[j + 1]],
                                  epsilon2)

\* C22: for an input of at least 3 points and an epsilon >= 0, every point
\* simplifyContour drops lies within perpendicular distance epsilon of the
\* chord joining the two consecutive retained points that bracket it (the
\* distance to the point itself when the two coincide).
\* (Violated: perpendicularDistance returns 0 when the chord's ends
\* coincide, so a closed sequence collapses whatever its interior points.)
C22_DroppedWithinEpsilon ==
    (op = "simplify" /\ Len(points) >= 3)
        => /\ Len(simplified) >= 2
           /\ \E kept \in [1..Len(simplified) -> 1..Len(points)] : C22_Explains(kept)

----------------------------------------------------------------------------
(* Further properties of the segmentation specification *)

\* The first pixel of a non-empty region in raster order (rows first).
C23_Seed(reg) ==
    CHOOSE c \in reg : \A e \in reg : c[2] < e[2] \/ (c[2] = e[2] /\ c[1] <= e[1])

\* The R, G, B of the pixel at a coordinate.
C23_Rgb(c) ==
    LET o == (c[2] * width + c[1]) * Channels
    IN  <<imageData[o + 1], imageData[o + 2], imageData[o + 3]>>

\* TRUE when a pixel is within 5 of another on each of R, G and B.
C23_Within5(c, seed) ==
    \A ch \in 1..3 :
        /\ C23_Rgb(c)[ch] - C23_Rgb(seed)[ch] <= 5
        /\ C23_Rgb(seed)[ch] - C23_Rgb(c)[ch] <= 5

\* TRUE when any two pixels of the region are joined by a path of
\* 4-neighbours inside the region.
C23_FourConnected(reg) ==
    LET step(S) == S \cup {c \in reg : \E s \in S :
                              (c[1] - s[1]) * (c[1] - s[1])
                                + (c[2] - s[2]) * (c[2] - s[2]) = 1}
        reached[n \in 0..Cardinality(reg)] ==
            IF n = 0 THEN {C23_Seed(reg)} ELSE step(reached[n - 1])
    IN  reached[Cardinality(reg)] = reg

\* The regions of at most the minimum size are discarded, and their pixels
\* with them: what is returned is what a minimum of 0 returns, less those.
C23_All == findRegions(imageData, width, height, 0)

\* C23: the regions findRegions returns are pairwise disjoint, each is
\* 4-connected, every pixel of a region is within 5 on each of R, G, B of
\* the region's first pixel in raster order, and every pixel of the image is
\* in exactly one flood-filled region, kept or discarded: with a minimum
\* size below 1 the regions returned partition the image.
C23_RegionsPartition ==
    op = "findRegions"
        => LET all == C23_All
           IN
           /\ \A i, j \in 1..Len(regions) :
                 i # j => regions[i] \cap regions[j] = {}
           /\ \A i \in 1..Len(regions) :
                 /\ regions[i] # {}
                 /\ regions[i] \subseteq AllCoordinates(width, height)
                 /\ C23_FourConnected(regions[i])
                 /\ \A c \in regions[i] : C23_Within5(c, C23_Seed(regions[i]))
           /\ \A c \in AllCoordinates(width, height) :
                 Cardinality({i \in 1..Len(all) : c \in all[i]}) = 1
           /\ regions = SelectSeq(all,
                                  LAMBDA reg : Cardinality(reg) > minRegionSize)
           /\ minRegionSize < 1
                 => UNION {regions[i] : i \in 1..Len(regions)}
                        = AllCoordinates(width, height)

\* A 3 x 3 image of two reds 8 apart in four quadrants, every region kept:
\* four regions, although each pixel is within 5 of a colour between them.
C23_Witness ==
    /\ op = "findRegions"
    /\ minRegionSize = 0
    /\ width = 3 /\ height = 3
    /\ Len(regions) = 4
    /\ \A p \in 0..8 : imageData[p * Channels + 1] \in {255, 247}

----------------------------------------------------------------------------
(* Further properties of the guide specification *)

\* TRUE when the declared geometry is that of the buffer.
C24_WellFormed == Len(imageData) = width * height * Channels

\* TRUE when the Sobel gradient magnitude at the interior pixel (x, y) of the
\* source exceeds the threshold of the detail level.
C24_StrongGradient(x, y) ==
    /\ IsInterior(width, height, x, y)
    /\ LET gray == GrayPlane(imageData, width * height, 0)
       IN  MagnitudeExceeds(Convolve(gray, width, x, y, SobelX, 1),
                            Convolve(gray, width, x, y, SobelY, 1),
                            LinesThreshold(levels))

\* TRUE when some interior source pixel of strong gradient lies within
\* Chebyshev distance floor(thickness / 2) of (nx, ny).
C24_NearStrongGradient(nx, ny) ==
    \E x \in 0..(width - 1), y \in 0..(height - 1) :
        /\ C24_StrongGradient(x, y)
        /\ Abs(nx - x) <= LinesThickness(levels) \div 2
        /\ Abs(ny - y) <= LinesThickness(levels) \div 2

\* C24: in the lines guide at every detail level 1..10 an output pixel is
\* black only if some interior source pixel within Chebyshev distance
\* floor(thickness / 2) of it has a Sobel gradient magnitude above the
\* threshold; every other output pixel, the 1-pixel border included, is
\* white.
\* (Violated: the border detectEdgesSobel never writes stays 0, 0, 0, 0 and
\* thickenLines takes it for edge pixels.)
C24_BlackOnlyNearGradient ==
    (op = "lines" /\ C24_WellFormed)
        => \A p \in 1..(width * height) :
              LET x == (p - 1) % width
                  y == (p - 1) \div width
              IN  /\ PixelOf(output, p)[1] = 0 => C24_NearStrongGradient(x, y)
                  /\ ~C24_NearStrongGradient(x, y)
                        => PixelOf(output, p) = <<ByteMax, ByteMax, ByteMax, ByteMax>>


\* TRUE when some in-bounds pixel of the input within Chebyshev distance
\* floor(thickness / 2) of (nx, ny) has red channel 0.
C25_NearEdgePixel(nx, ny) ==
    \E x \in 0..(width - 1), y \in 0..(height - 1) :
        /\ imageData[(y * width + x) * Channels + 1] = 0
        /\ nx - x <= thickness \div 2 /\ x - nx <= thickness \div 2
        /\ ny - y <= thickness \div 2 /\ y - ny <= thickness \div 2

\* C25: for thickness > 1 thickenLines outputs opaque black at (x, y)
\* exactly when some in-bounds input pixel within Chebyshev distance
\* floor(thickness / 2) of (x, y) is an edge pixel (red channel 0), and
\* opaque white otherwise, so every input edge pixel stays black; for
\* thickness <= 1 the output equals the input pixel for pixel.
C25_DilatesBySquare ==
    (op = "thickenLines" /\ C24_WellFormed)
        => IF thickness > 1
           THEN \A p \in 1..(width * height) :
                   /\ PixelOf(output, p) =
                         IF C25_NearEdgePixel((p - 1) % width, (p - 1) \div width)
                         THEN <<0, 0, 0, ByteMax>>
                         ELSE <<ByteMax, ByteMax, ByteMax, ByteMax>>
                   /\ PixelOf(imageData, p)[1] = 0
                         => PixelOf(output, p) = <<0, 0, 0, ByteMax>>
           ELSE output = imageData

\* A 3 x 3 image thickened by 2 or 3 (radius 1) whose only edge pixels are in
\* the first column: the second column turns black, the third stays white.
C25_Witness ==
    /\ op = "thickenLines"
    /\ C24_WellFormed
    /\ width = 3 /\ height = 3
    /\ thickness \in {2, 3}
    /\ \A p \in 1..9 : (PixelOf(imageData, p)[1] = 0) = ((p - 1) % 3 = 0)
    /\ \A p \in 1..9 :
          PixelOf(output, p) = IF (p - 1) % 3 = 2
                               THEN <<ByteMax, ByteMax, ByteMax, ByteMax>>
                               ELSE <<0, 0, 0, ByteMax>>


\* The R, G, B of pixel (x, y) of the input.
C26_Rgb(x, y) == SubSeq(imageData, (y * width + x) * Channels + 1,
                        (y * width + x) * Channels + 3)

\* TRUE when the right or the bottom neighbour of (x, y), where there is
\* one, differs from it in R, G or B in the input.
C26_NeighbourDiffers(x, y) ==
    \/ x < width - 1 /\ C26_Rgb(x + 1, y) # C26_Rgb(x, y)
    \/ y < height - 1 /\ C26_Rgb(x, y + 1) # C26_Rgb(x, y)

\* TRUE when d is round(0.85 v): the integer nearest 17 v / 20, halves up.
C26_IsRounded85(d, v) == 20 * d <= 17 * v + 10 /\ 17 * v + 10 < 20 * d + 20

\* C26: in the blocks guide a pixel's R, G, B are each replaced by
\* round(0.85 value) exactly when its right neighbour (if x < width - 1) or
\* its bottom neighbour (if y < height - 1) differs from it in R, G or B in
\* the input buffer; every other pixel is copied unchanged and alpha is
\* never changed.
C26_DarkensAtInputEdges ==
    (op = "blocks" /\ C24_WellFormed)
        => \A p \in 1..(width * height) :
              LET x == (p - 1) % width
                  y == (p - 1) \div width
              IN  /\ PixelOf(output, p)[Channels] = PixelOf(imageData, p)[Channels]
                  /\ \A c \in 1..3 :
                        IF C26_NeighbourDiffers(x, y)
                        THEN C26_IsRounded85(PixelOf(output, p)[c],
                                             PixelOf(imageData, p)[c])
                        ELSE PixelOf(output, p)[c] = PixelOf(imageData, p)[c]

\* A row of three pixels, white, white, black: the second is darkened to
\* 217, and the first, which now differs from it, is left as it was.
C26_Witness ==
    /\ op = "blocks"
    /\ width = 3 /\ height = 1
    /\ imageData = <<255, 255, 255, 255, 255, 255, 255, 255, 0, 0, 0, 255>>
    /\ output = <<255, 255, 255, 255, 217, 217, 217, 255, 0, 0, 0, 255>>

----------------------------------------------------------------------------
(* The call tree of simplifyContour *)

\* A plausible slip: maxDistance >= epsilon.
SplitIndexAtLeast(pts, eps2) ==
    IF Len(pts) < 3 THEN -1
    ELSE LET scan == MaxScan(pts, 1, 0, 0)
             den2 == DistanceDenominator2(pts[1], pts[Len(pts)])
         IN  IF 4 * scan[1] * scan[1] >= eps2 * eps2 * den2 THEN scan[2] ELSE -1

\* The index at which a call of simplifyContour splits its points for the
\* two nested calls, -1 when it returns without a nested call.
SplitIndex(pts, eps2) ==
    IF Len(pts) < 3 THEN -1
    ELSE LET scan == MaxScan(pts, 1, 0, 0)
         IN  IF ExceedsEpsilon(scan[1], DistanceDenominator2(pts[1], pts[Len(pts)]), eps2)
             THEN scan[2]
             ELSE -1

\* The number of calls nested below a call of simplifyContour at its deepest,
\* counted as far as budget + 1.
RECURSIVE NestedCalls(_, _, _)
NestedCalls(pts, eps2, budget) ==
    LET index == SplitIndex(pts, eps2)
    IN  IF index = -1 THEN 0
        ELSE IF budget = 0 THEN 1
        ELSE LET left == NestedCalls(SubSeq(pts, 1, index + 1), eps2, budget - 1)
                 right == NestedCalls(SubSeq(pts, index + 1, Len(pts)), eps2, budget - 1)
             IN  1 + (IF left > right THEN left ELSE right)

\* C27: simplifyContour terminates on every finite point sequence (with
\* repeated points, with the first point equal to the last) for every
\* epsilon >= 0, and its recursion depth is bounded by the input length n:
\* at most n - 2 calls are nested, none for fewer than 3 points.
C27_DepthBounded ==
    op = "simplify"
        => LET nested == NestedCalls(points, epsilon2, Len(points))
           IN  /\ nested <= Len(points)
               /\ Len(points) >= 3 => nested <= Len(points) - 2
               /\ Len(points) < 3 => nested = 0

\* Four points nested to the full depth of 2: a zigzag, split at its second
\* point and then at its third.
C27_Witness ==
    /\ op = "simplify"
    /\ Len(points) = 4
    /\ NestedCalls(points, epsilon2, Len(points)) = 2

----------------------------------------------------------------------------
(* A further property of the palette specification *)

\* The 3-digit shorthand, which hexToRgb does not parse.
C28_Malformed == <<"#", "F", "F", "F">>

\* C28: remapImageToPalette called on a well-formed non-empty buffer with an
\* empty list of base colours, or with only malformed hex strings, completes
\* without throwing and returns a buffer of the input's geometry.
\* (Violated: with no base colour the expanded palette is empty, bestMatch is
\* undefined and reading bestMatch.r raises a TypeError.)
C28_EmptyPaletteNoThrow ==
    (/\ op = "remap"
     /\ passes = 1
     /\ Len(imageData) > 0
     /\ \A i \in 1..Len(paletteHexColors) : paletteHexColors[i] = C28_Malformed)
        => /\ ~thrown
           /\ Len(output) = Len(imageData)

----------------------------------------------------------------------------
(* A further property of the tracing specification *)

\* C29: traceContour terminates for every region and every start pixel, and
\* the path it walks before simplification has at most
\* min(regionSize, 10000) points, so the returned contour has at most that
\* many; regions of fewer than 3 pixels and walked paths of fewer than 4
\* points yield the empty contour.  The walk ends within maxIterations
\* steps, and it has pushed one point per step, and one more when it broke
\* off with no neighbour found.
C29_PathBounded ==
    op = "traceContour"
        => /\ walk.iterations <= MaxIterations(region)
           /\ Len(walk.contour) <= Min(Cardinality(region), IterationCap)
           /\ Len(simplified) <= Len(walk.contour)
           /\ Cardinality(region) < 3 => walk = NoWalk /\ simplified = <<>>
           /\ Len(walk.contour) < 4 => simplified = <<>>
           /\ Cardinality(region) >= 3
                 => IF walk.found
                    THEN Len(walk.contour) = walk.iterations
                    ELSE /\ Len(walk.contour) = walk.iterations + 1
                         /\ walk.iterations < MaxIterations(region)

\* A walk that stopped because it had pushed as many points as the region
\* has pixels, away from its start, and returned a contour.
C29_Witness ==
    /\ op = "traceContour"
    /\ Cardinality(region) >= 4
    /\ Len(walk.contour) = Cardinality(region)
    /\ <<walk.x, walk.y>> # <<startX, startY>>
    /\ simplified # <<>>

----------------------------------------------------------------------------
(* ImageStore: the methods of createImageStore (imageStore.ts) *)

\* A plausible slip: the entries after the current one are dropped, as an
\* undo stack would.
setImageTruncating(state, image) ==
    [state EXCEPT !.current = image,
                  !.history = Append(SubSeq(state.history, 1,
                                            state.historyIndex + 1), image),
                  !.historyIndex = state.historyIndex + 1,
                  !.adjustments = defaultAdjustments]

\* setImage: history is 0-based in the code, so history[i] there is
\* history[i + 1] here.
setImage(state, image) ==
    [state EXCEPT !.current = image,
                  !.history = Append(state.history, image),
                  !.historyIndex = Len(state.history),
                  !.adjustments = defaultAdjustments]

\* updateAdjustments: the fields of partial replace those of adjustments.
updateAdjustments(state, partial) ==
    [state EXCEPT !.adjustments =
        [f \in DOMAIN state.adjustments |->
            IF f \in DOMAIN partial THEN partial[f] ELSE state.adjustments[f]]]

undo(state) ==
    IF state.historyIndex > 0
    THEN [state EXCEPT !.historyIndex = state.historyIndex - 1,
                       !.current = state.history[state.historyIndex]]
    ELSE state

redo(state) ==
    IF state.historyIndex < Len(state.history) - 1
    THEN [state EXCEPT !.historyIndex = state.historyIndex + 1,
                       !.current = state.history[state.historyIndex + 2]]
    ELSE state

----------------------------------------------------------------------------
(* Bounds, inputs and actions of the store specification *)

\* At most MaxCalls methods are called, and at most MaxHistory images set.
MaxCalls == 5
MaxHistory == 3

\* The images, the tools and the partial adjustments the methods are given.
Images == {"imageA", "imageB"}

Tools == {"none", "adjustments", "value-simplification", "grid", "measure",
          "color-picker"}

Partials ==
    { [brightness |-> 50],
      [crop |-> <<0, 0, 50, 50>>, cropMode |-> TRUE] }

storeRest == <<passes, thrown, imageData, width, height, levels, output,
               numColors, sampleRate, colors, paletteHexColors,
               expandedPalette, points, epsilon2, simplified, threshold,
               tracerVars, thickness, aliased, hexString, parsedRgb>>

InitStore ==
    /\ StoreIdle
    /\ op = "none"
    /\ passes = 0
    /\ thrown = FALSE
    /\ imageData = <<>>
    /\ width = 0
    /\ height = 0
    /\ levels = 0
    /\ output = <<>>
    /\ numColors = 0
    /\ sampleRate = 0
    /\ colors = <<>>
    /\ paletteHexColors = <<>>
    /\ expandedPalette = <<>>
    /\ points = <<>>
    /\ epsilon2 = 0
    /\ simplified = <<>>
    /\ threshold = 0
    /\ minRegionSize = 0
    /\ regions = <<>>
    /\ region = {}
    /\ startX = 0
    /\ startY = 0
    /\ walk = NoWalk
    /\ thickness = 0
    /\ aliased = FALSE
    /\ hexString = <<>>
    /\ parsedRgb = <<>>

\* A call of the method named name that leaves the store holding next.
Called(name, next) ==
    /\ calls < MaxCalls
    /\ calls' = calls + 1
    /\ op' = name
    /\ store' = next
    /\ UNCHANGED storeRest

SetImage ==
    /\ Len(store.history) < MaxHistory
    /\ \E image \in Images : Called("setImage", setImage(store, image))

SetAnalysis ==
    Called("setAnalysis", [store EXCEPT !.analysis = "analysis"])

SetProcessing ==
    \E isProcessing \in BOOLEAN :
        Called("setProcessing", [store EXCEPT !.isProcessing = isProcessing])

SetBrightness ==
    \E brightness \in {100, 150} :
        Called("setBrightness", [store EXCEPT !.brightness = brightness])

SetContrast ==
    \E contrast \in {50, 100} :
        Called("setContrast", [store EXCEPT !.contrast = contrast])

SetSaturation ==
    \E saturations \in {0, 100} :
        Called("setSaturation", [store EXCEPT !.saturations = saturations])

SetActiveTool ==
    \E tool \in Tools :
        Called("setActiveTool", [store EXCEPT !.activeTool = tool])

UpdateAdjustments ==
    \E partial \in Partials :
        Called("updateAdjustments", updateAdjustments(store, partial))

ResetAdjustments ==
    Called("resetAdjustments", [store EXCEPT !.adjustments = defaultAdjustments])

SetValueSimplificationEnabled ==
    \E enabled \in BOOLEAN :
        Called("setValueSimplificationEnabled",
               [store EXCEPT !.valueSimplification.enabled = enabled])

SetValueSimplificationLevels ==
    \E lv \in {3, 5} :
        Called("setValueSimplificationLevels",
               [store EXCEPT !.valueSimplification.levels = lv])

SetValueSimplificationOpacity ==
    \E opacity \in {50, 100} :
        Called("setValueSimplificationOpacity",
               [store EXCEPT !.valueSimplification.opacity = opacity])

SetExtractedColors ==
    \E cs \in {<<>>, <<[r |-> 255, g |-> 0, b |-> 0, hex |-> "#FF0000"]>>} :
        Called("setExtractedColors",
               [store EXCEPT !.valueSimplification.extractedColors = cs])

SetPaintByNumbersEnabled ==
    \E enabled \in BOOLEAN :
        Called("setPaintByNumbersEnabled",
               [store EXCEPT !.valueSimplification.paintByNumbersEnabled = enabled])

SetPaintByNumbersMode ==
    \E mode \in {"lines", "blocks"} :
        Called("setPaintByNumbersMode",
               [store EXCEPT !.valueSimplification.paintByNumbersMode = mode])

SetPaletteEnabled ==
    \E enabled \in BOOLEAN :
        Called("setPaletteEnabled",
               [store EXCEPT !.valueSimplification.paletteEnabled = enabled])

SetSelectedPalette ==
    \E paletteKey \in {"zorn", "primary"} :
        Called("setSelectedPalette",
               [store EXCEPT !.valueSimplification.selectedPalette = paletteKey])

Undo == Called("undo", undo(store))

Redo == Called("redo", redo(store))

\* reset(): set(initialState).
Reset == Called("reset", initialState)

NextStore ==
    \/ SetImage
    \/ SetAnalysis
    \/ SetProcessing
    \/ SetBrightness
    \/ SetContrast
    \/ SetSaturation
    \/ SetActiveTool
    \/ UpdateAdjustments
    \/ ResetAdjustments
    \/ SetValueSimplificationEnabled
    \/ SetValueSimplificationLevels
    \/ SetValueSimplificationOpacity
    \/ SetExtractedColors
    \/ SetPaintByNumbersEnabled
    \/ SetPaintByNumbersMode
    \/ SetPaletteEnabled
    \/ SetSelectedPalette
    \/ Undo
    \/ Redo
    \/ Reset

SpecStore == InitStore /\ [][NextStore]_vars

\* The history, its index and the current image agree: the store is empty,
\* or current is the entry of the history at historyIndex.
C30_Consistent ==
    \/ /\ store.history = <<>>
       /\ store.historyIndex = -1
       /\ store.current = Null
    \/ /\ 0 <= store.historyIndex
       /\ store.historyIndex < Len(store.history)
       /\ store.current = store.history[store.historyIndex + 1]

\* What a call of undo, redo or setImage does to the store.
C30_Step ==
    /\ op' \in {"undo", "redo"}
          => /\ store'.history = store.history
             /\ store'.adjustments = store.adjustments
    /\ (op' = "undo" /\ store.historyIndex = 0) => store' = store
    /\ (op' = "redo" /\ store.historyIndex = Len(store.history) - 1)
          => store' = store
    /\ op' = "setImage"
          => /\ Len(store'.history) = Len(store.history) + 1
             /\ SubSeq(store'.history, 1, Len(store.history)) = store.history
             /\ store'.historyIndex = Len(store'.history) - 1

\* C30: after any sequence of setImage, undo, redo, reset and the other
\* store setters, either history is empty, historyIndex = -1 and current is
\* null, or 0 <= historyIndex < length(history) and current =
\* history[historyIndex]; undo and redo never change history or adjustments,
\* undo is a no-op at index 0, redo is a no-op at the last index, and
\* setImage appends to history without discarding any entry and moves
\* historyIndex to the last entry.
C30_HistoryConsistent == []C30_Consistent /\ [][C30_Step]_vars

\* An undo from the second of two images with adjustments made since: the
\* first image is current and the adjustments are kept.
C30_Witness ==
    /\ op = "undo"
    /\ Len(store.history) = 2
    /\ store.historyIndex = 0
    /\ store.current = store.history[1]
    /\ store.history[1] # store.history[2]
    /\ store.adjustments # defaultAdjustments

====
